---- MODULE Spec2Model ----
(***************************************************************************)
(* Model of the timetable pipeline of TimeTable_Scheduler:                 *)
(* GreedyScheduler (greedy_algorithm.py), GeneticScheduler                 *)
(* (genetic_algorithm.py), ConflictResolver (conflict_resolver.py) and     *)
(* NEPComplianceChecker (nep_compliance.py).                               *)
(* Each component has its own specification over the shared variables:     *)
(*   Spec            the greedy scheduler instance, called repeatedly      *)
(*   SpecNormalizer  GreedyScheduler._parse_class_requirements             *)
(*   SpecGenetic     GeneticScheduler.optimize_schedule                    *)
(*   SpecFullSize    optimize_schedule with the population sizes of the    *)
(*                   levels, on a schedule without classes                 *)
(*   SpecUnmutated   optimize_schedule on the passes that leave the genes  *)
(*                   as they are, with a full-week seed schedule           *)
(*   SpecFitness     GeneticScheduler._calculate_fitness                   *)
(*   SpecEvaluation  GeneticScheduler._evaluate_population_fitness         *)
(*   SpecResolver    ConflictResolver.resolve_conflicts                    *)
(*   SpecCompliance  NEPComplianceChecker.check_compliance                 *)
(* Floats are modelled by exact integers or scaled integers; Python        *)
(* exceptions are modelled by pc = "raised" with the exception's name.     *)
(***************************************************************************)
EXTENDS Integers, Sequences, FiniteSets, TLC

VARIABLES
    \* ---- GreedyScheduler instance (greedy_algorithm.py:55-68)
    schedule_matrix,    \* self.schedule_matrix
    faculty_schedule,   \* self.faculty_schedule : faculty_id -> set of TimeSlot
    room_schedule,      \* self.room_schedule    : room_id -> set of TimeSlot
    group_schedule,     \* self.group_schedule   : group_id -> set of TimeSlot
    constraints,        \* self.constraints      : faculty_id -> SchedulingConstraint
    \* ---- one call of generate_initial_schedule
    request_data,       \* the catalog handed to the call
    requirements,       \* class_requirements (sorted)
    available_rooms,    \* rooms by type
    req_idx,            \* position of the outer loop (1-based)
    occurrence,         \* position of the inner loop (0-based)
    scheduled_classes,  \* the list built by _schedule_classes_greedily
    gpc,                \* "idle" | "scheduling" | "output" | "returned" | "raised"
    gerror,             \* name of the exception when gpc = "raised"
    returned,           \* the schedules returned by the calls so far, in order
    \* ---- ConflictResolver instance and one call of resolve_conflicts
    conflict_count,     \* self.conflict_count
    rclasses,           \* the class dicts of the schedule, by object identity
    rschedule,          \* schedule['weekly_schedule']: day -> dict of lists of classes
    rinput,             \* the schedule as it was handed to resolve_conflicts
    rconflicts,         \* conflicts: the list of the first detection
    rnext,              \* position of the loop of _auto_resolve_conflicts (1-based)
    rresidual,          \* schedule['conflicts'] of the returned schedule
    rpc,                \* "idle" | "repair" | "recheck" | "done"
    \* ---- GeneticScheduler instance and one call of optimize_schedule
    population_size,    \* self.population_size
    generations,        \* self.generations
    mutation_rate,      \* self.mutation_rate, in percent
    initial_schedule,   \* the schedule handed to optimize_schedule
    optimization_level, \* the level handed to optimize_schedule
    gene_objects,       \* the Gene objects that chromosomes refer to
    population,         \* population: list of Chromosome
    new_population,     \* new_population of _create_next_generation
    best_solution,      \* best_solution: a deep copy, its genes by value
    best_fitness,       \* best_fitness
    current_best,       \* current_best.fitness_score of the last pass
    generation,         \* passes of the loop of optimize_schedule completed
    evaluated_max,      \* history: the highest fitness any evaluation gave
    optimized,          \* the schedule optimize_schedule returned
    opc,                \* "idle" | "initialize" | "evaluate" | "breed" |
                        \* "convert" | "returned" | "raised"
    oerror,             \* name of the exception when opc = "raised"
    \* ---- one call of GeneticScheduler._calculate_fitness
    evaluated_genes,    \* chromosome.genes of the call, by value
    fitness,            \* the dict _calculate_fitness returns
    fpc,                \* "off" | "ready" | "scored"
    \* ---- one call of GeneticScheduler._evaluate_population_fitness
    epopulation,        \* population: the list of Chromosome of the call
    egene_objects,      \* the Gene objects its chromosomes refer to
    fitness_tasks,      \* fitness_tasks: the futures submitted so far
    ecollected,         \* results stored by the loop over fitness_tasks
    epc,                \* "off" | "submit" | "collect" | "joined"
    \* ---- NEPComplianceChecker: one call of check_compliance
    audited,            \* the schedule handed to check_compliance
    compliance_report,  \* the report it returns
    cpc                 \* "off" | "ready" | "reported"

gvars == <<schedule_matrix, faculty_schedule, room_schedule, group_schedule,
           constraints, request_data, requirements, available_rooms, req_idx,
           occurrence, scheduled_classes, gpc, gerror, returned>>

rvars == <<conflict_count, rclasses, rschedule, rinput, rconflicts, rnext,
           rresidual, rpc>>

ovars == <<population_size, generations, mutation_rate, initial_schedule,
           optimization_level,
           gene_objects, population, new_population, best_solution, best_fitness,
           current_best, generation, evaluated_max, optimized, opc, oerror>>

fvars == <<evaluated_genes, fitness, fpc>>

evars == <<epopulation, egene_objects, fitness_tasks, ecollected, epc>>

cvars == <<audited, compliance_report, cpc>>

vars == <<gvars, rvars, ovars, fvars, evars, cvars>>

\* what an operation of one component leaves alone: the other components
NotGreedy == <<rvars, ovars, fvars, evars, cvars>>
NotResolver == <<gvars, ovars, fvars, evars, cvars>>
NotGenetic == <<gvars, rvars, fvars, evars, cvars>>
NotFitness == <<gvars, rvars, ovars, evars, cvars>>
NotEvaluation == <<gvars, rvars, ovars, fvars, cvars>>
NotCompliance == <<gvars, rvars, ovars, fvars, evars>>

-----------------------------------------------------------------------------
(* Program constants *)

days == 5
periods_per_day == 8

time_slots ==
    << "09:00-10:00", "10:00-11:00", "11:00-12:00", "12:00-13:00",
       "14:00-15:00", "15:00-16:00", "16:00-17:00", "17:00-18:00" >>

day_names == << "monday", "tuesday", "wednesday", "thursday", "friday" >>

None == "None"

Priority_HIGH == 1
Priority_MEDIUM == 2
Priority_LOW == 3

-----------------------------------------------------------------------------
(* Bounds of the model *)

\* how many times generate_initial_schedule is called on one instance
MaxRuns == 2

\* cap on self.population_size
MaxPopulation == 2

\* cap on self.generations
MaxGenerations == 2

\* the longest chromosome _calculate_fitness is called on by itself
MaxGenes == 2

\* the subjects of a catalog _parse_class_requirements is called on by itself
MaxSubjects == 2

\* the courses of half the minimum credits a catalog has in one category, and
\* the courses of a teacher education catalog
MaxCourses == 2

\* the chromosomes of a population _evaluate_population_fitness is called on
\* by itself
MaxTasks == 5

-----------------------------------------------------------------------------
(* Python helpers *)

Max(a, b) == IF a >= b THEN a ELSE b
Min(a, b) == IF a <= b THEN a ELSE b
Abs(a) == IF a >= 0 THEN a ELSE -a
Range(s) == {s[i] : i \in DOMAIN s}

\* str.lower() on the strings that occur in the catalogs of the model
Lower(s) ==
    CASE s = "Monday" -> "monday"
      [] s = "Tuesday" -> "tuesday"
      [] s = "Wednesday" -> "wednesday"
      [] s = "Thursday" -> "thursday"
      [] s = "Friday" -> "friday"
      [] s = "Mathematics" -> "mathematics"
      [] s = "Physics" -> "physics"
      [] s = "Art" -> "art"
      [] s = "Art Lab" -> "art lab"
      [] s = "Mathematics Lab" -> "mathematics lab"
      [] s = "Workshop Lab" -> "workshop lab"
      [] s = "Workshop" -> "workshop"
      [] s = "Major" -> "major"
      [] s = "FYUP" -> "fyup"
      [] OTHER -> s

\* list.index(x), 0-based; -1 stands for the ValueError of a missing element
IndexOf(seq, x) ==
    IF \E i \in DOMAIN seq : seq[i] = x
    THEN (CHOOSE i \in DOMAIN seq : seq[i] = x /\ \A j \in 1..(i-1) : seq[j] # x) - 1
    ELSE -1

TimeSlot(d, p) == [day |-> d, period |-> p]

-----------------------------------------------------------------------------
(* _parse_class_requirements and its helpers *)

_group_needs_subject(group, subject) ==
    LET group_program == Lower(group.program)
        subject_programs == {Lower(p) : p \in Range(subject.programs)}
    IN  IF subject_programs # {} /\ group_program \notin subject_programs
        THEN FALSE
        ELSE group.semester = subject.semester

_determine_subject_priority(subject) ==
    LET subject_type == Lower(subject.type)
    IN  IF subject_type \in {"major", "core"} THEN Priority_HIGH
        ELSE IF subject_type \in {"minor", "skill", "ability_enhancement"}
             THEN Priority_MEDIUM
        ELSE Priority_LOW

\* the practical requirement meeting as often as the theory one
PracticalFrequencySame(weekly_freq) == weekly_freq

\* weekly_frequency of the practical requirement
PracticalFrequency(weekly_freq) == Max(1, weekly_freq \div 2)

\* the requirements one (subject, group) pair appends, theory first
RequirementsOfPair(subject, group) ==
    LET priority == _determine_subject_priority(subject)
        weekly_freq == Max(1, subject.credits \div 2)
        theory ==
            [subject_id |-> subject.subject_id,
             subject_name |-> subject.name,
             faculty_id |-> subject.faculty_id,
             student_group_id |-> group.group_id,
             room_type |-> "lecture",
             duration |-> 1,
             weekly_frequency |-> weekly_freq,
             priority |-> priority,
             preferred_slots |-> {}]
        practical ==
            [subject_id |-> subject.subject_id \o "_lab",
             subject_name |-> subject.name \o " Lab",
             faculty_id |-> subject.faculty_id,
             student_group_id |-> group.group_id,
             room_type |-> "lab",
             duration |-> 2,
             weekly_frequency |-> PracticalFrequency(weekly_freq),
             priority |-> priority,
             preferred_slots |-> {}]
    IN  IF ~_group_needs_subject(group, subject) THEN << >>
        ELSE (IF subject.theory_hours > 0 THEN <<theory>> ELSE << >>)
             \o (IF subject.practical_hours > 0 THEN <<practical>> ELSE << >>)

RECURSIVE UnsortedRequirements(_, _, _, _)
\* the two nested loops: for subject in subjects: for group in student_groups
UnsortedRequirements(subjects, groups, si, gi) ==
    IF si > Len(subjects) THEN << >>
    ELSE IF gi > Len(groups) THEN UnsortedRequirements(subjects, groups, si + 1, 1)
    ELSE RequirementsOfPair(subjects[si], groups[gi])
         \o UnsortedRequirements(subjects, groups, si, gi + 1)

\* list.sort() with ClassRequirement.__lt__ (priority value only): stable
SortRequirements(reqs) ==
    SelectSeq(reqs, LAMBDA r : r.priority = Priority_HIGH)
    \o SelectSeq(reqs, LAMBDA r : r.priority = Priority_MEDIUM)
    \o SelectSeq(reqs, LAMBDA r : r.priority = Priority_LOW)

_parse_class_requirements(rd) ==
    SortRequirements(UnsortedRequirements(rd.subjects, rd.student_groups, 1, 1))

\* rooms by type, every room listed under every type
ParseRoomDataAnyType(rd) ==
    [t \in {"lecture", "lab", "seminar"} |-> rd.rooms]

\* rooms by type; a room of another type is dropped
_parse_room_data(rd) ==
    [t \in {"lecture", "lab", "seminar"} |->
        SelectSeq(rd.rooms, LAMBDA r : r.type = t)]

-----------------------------------------------------------------------------
(* _parse_faculty_constraints *)

\* A slot string is modelled by its shape: the text before the first '_'
\* (day), the number of '_' it holds (seps), and the text after it, which is
\* the decimal numeral of `period` when period_is_int.
SlotString(dayname, p) ==
    [day |-> dayname, seps |-> 1, period |-> p, period_is_int |-> TRUE]

\* "ignored": no '_' in the string; "ValueError": split into other than two
\* parts, unknown day name, or int() of a non-numeral
ParseSlotString(s) ==
    IF s.seps = 0 THEN "ignored"
    ELSE IF s.seps > 1 THEN "ValueError"
    ELSE IF IndexOf(day_names, Lower(s.day)) < 0 THEN "ValueError"
    ELSE IF ~s.period_is_int THEN "ValueError"
    ELSE "ok"

SlotOfString(s) == TimeSlot(IndexOf(day_names, Lower(s.day)), s.period)

FacultyEntryRaises(faculty) ==
    \/ \E s \in faculty.unavailable_slots : ParseSlotString(s) = "ValueError"
    \/ \E d \in Range(faculty.preferred_days) : IndexOf(day_names, Lower(d)) < 0

ConstraintOf(faculty) ==
    [faculty_id |-> faculty.faculty_id,
     unavailable_slots |->
        {SlotOfString(s) : s \in {u \in faculty.unavailable_slots :
                                        ParseSlotString(u) = "ok"}},
     max_consecutive_hours |-> faculty.max_consecutive_hours,
     preferred_days |-> {IndexOf(day_names, Lower(d)) : d \in Range(faculty.preferred_days)},
     min_gap_between_classes |-> faculty.min_gap]

\* the dictionary the parse returns: a later entry of a faculty_id replaces an
\* earlier one
_parse_faculty_constraints(rd) ==
    LET ids == {rd.faculty[i].faculty_id : i \in DOMAIN rd.faculty}
        lastOf(id) == CHOOSE i \in DOMAIN rd.faculty :
                        /\ rd.faculty[i].faculty_id = id
                        /\ \A j \in DOMAIN rd.faculty :
                              rd.faculty[j].faculty_id = id => j <= i
    IN  [id \in ids |-> ConstraintOf(rd.faculty[lastOf(id)])]

ParseFacultyRaises(rd) == \E i \in DOMAIN rd.faculty : FacultyEntryRaises(rd.faculty[i])

\* dict.update
DictUpdate(old, new) ==
    [k \in (DOMAIN old) \cup (DOMAIN new) |-> IF k \in DOMAIN new THEN new[k] ELSE old[k]]

-----------------------------------------------------------------------------
(* _evaluate_slot and the penalties *)

\* defaultdict(set) lookup
Busy(sched, id) == IF id \in DOMAIN sched THEN sched[id] ELSE {}

\* _check_hard_constraints without the faculty busy-set test
CheckHardConstraintsNoFaculty(slot, req, room, fs, rs, gs, cons) ==
    \A i \in 0..(req.duration - 1) :
        LET check_slot == TimeSlot(slot.day, slot.period + i)
        IN  /\ check_slot \notin Busy(rs, room.room_id)
            /\ check_slot \notin Busy(gs, req.student_group_id)
            /\ (req.faculty_id \in DOMAIN cons
                  => check_slot \notin cons[req.faculty_id].unavailable_slots)

\* _check_hard_constraints testing unavailability for the start period only
CheckHardConstraintsStartOnly(slot, req, room, fs, rs, gs, cons) ==
    /\ \A i \in 0..(req.duration - 1) :
        LET check_slot == TimeSlot(slot.day, slot.period + i)
        IN  /\ check_slot \notin Busy(fs, req.faculty_id)
            /\ check_slot \notin Busy(rs, room.room_id)
            /\ check_slot \notin Busy(gs, req.student_group_id)
    /\ (req.faculty_id \in DOMAIN cons
          => slot \notin cons[req.faculty_id].unavailable_slots)

_check_hard_constraints(slot, req, room, fs, rs, gs, cons) ==
    \A i \in 0..(req.duration - 1) :
        LET check_slot == TimeSlot(slot.day, slot.period + i)
        IN  /\ check_slot \notin Busy(fs, req.faculty_id)
            /\ check_slot \notin Busy(rs, room.room_id)
            /\ check_slot \notin Busy(gs, req.student_group_id)
            /\ (req.faculty_id \in DOMAIN cons
                  => check_slot \notin cons[req.faculty_id].unavailable_slots)

RECURSIVE RunLength(_, _, _, _, _)
\* the for/break loops of _calculate_consecutive_penalty: how many of the
\* slots at distance i, i+1, ... < limit in direction dir are busy in a row
RunLength(slot, busy, dir, i, limit) ==
    IF i >= limit THEN 0
    ELSE IF TimeSlot(slot.day, slot.period + dir * i) \in busy
         THEN 1 + RunLength(slot, busy, dir, i + 1, limit)
         ELSE 0

_calculate_consecutive_penalty(slot, faculty_id, constraint, fs) ==
    LET busy == Busy(fs, faculty_id)
        consecutive == 1 + RunLength(slot, busy, -1, 1, constraint.max_consecutive_hours)
                         + RunLength(slot, busy, 1, 1, constraint.max_consecutive_hours)
    IN  IF consecutive > constraint.max_consecutive_hours
        THEN (consecutive - constraint.max_consecutive_hours) * 20
        ELSE 0

_calculate_gap_penalty(slot, faculty_id, constraint, fs) ==
    LET faculty_slots_today == {s \in Busy(fs, faculty_id) : s.day = slot.day}
    IN  IF constraint.min_gap_between_classes = 0 THEN 0
        ELSE IF faculty_slots_today = {} THEN 0
        ELSE IF \E s \in faculty_slots_today :
                    Abs(s.period - slot.period) < constraint.min_gap_between_classes
             THEN 15
        ELSE 0

\* the stub: room assignments are not tracked
_get_room_for_slot(faculty_id, slot) == None

_calculate_movement_penalty(slot, faculty_id, room, fs) ==
    LET adjacent == {s \in Busy(fs, faculty_id) :
                        s = TimeSlot(slot.day, slot.period - 1)
                        \/ s = TimeSlot(slot.day, slot.period + 1)}
        moved == {s \in adjacent :
                    /\ _get_room_for_slot(faculty_id, s) # None
                    /\ _get_room_for_slot(faculty_id, s) # room.room_id}
    IN  25 * Cardinality(moved)

_evaluate_slot(slot, req, room, fs, rs, gs, cons) ==
    IF ~_check_hard_constraints(slot, req, room, fs, rs, gs, cons) THEN 0
    ELSE
    LET preferred == IF req.preferred_slots # {} /\ slot \in req.preferred_slots
                     THEN 50 ELSE 0
        known == req.faculty_id \in DOMAIN cons
        constraint == cons[req.faculty_id]
        day_bonus == IF known /\ constraint.preferred_days # {}
                        /\ slot.day \in constraint.preferred_days
                     THEN 20 ELSE 0
        consecutive_penalty ==
            IF known THEN _calculate_consecutive_penalty(slot, req.faculty_id, constraint, fs)
            ELSE 0
        gap_penalty ==
            IF known THEN _calculate_gap_penalty(slot, req.faculty_id, constraint, fs)
            ELSE 0
        movement_penalty == _calculate_movement_penalty(slot, req.faculty_id, room, fs)
        fatigue == IF Lower(req.subject_name) \in {"mathematics", "physics", "chemistry"}
                      /\ slot.period >= 5
                   THEN 30 ELSE 0
        day_load == Cardinality({s \in Busy(gs, req.student_group_id) : s.day = slot.day})
        load_penalty == IF day_load > 4 THEN day_load * 10 ELSE 0
        capacity_penalty == IF room.capacity < 30 THEN 10 ELSE 0
    IN  Max(0, 100 + preferred + day_bonus - consecutive_penalty - gap_penalty
               - movement_penalty - fatigue - load_penalty - capacity_penalty)

-----------------------------------------------------------------------------
(* heapq on the tuples (-score, slot, room) of _find_best_slot *)

\* a < b on the tuples: the first differing component decides. The scores are
\* floats; TimeSlot defines __eq__ but no __lt__, and a room is a dict, so a
\* tie on the score ends in TypeError unless both tuples are equal.
TupleLess(a, b) ==
    IF a.negscore # b.negscore
    THEN (IF a.negscore < b.negscore THEN "lt" ELSE "ge")
    ELSE IF a.slot # b.slot THEN "TypeError"
    ELSE IF a.room = b.room THEN "ge"
    ELSE "TypeError"

RECURSIVE _siftdown(_, _, _, _)
\* heapq._siftdown; positions are 0-based as in heapq, heap[pos + 1] is the item
_siftdown(heap, startpos, pos, newitem) ==
    IF pos > startpos
    THEN LET parentpos == (pos - 1) \div 2
             parent == heap[parentpos + 1]
             c == TupleLess(newitem, parent)
         IN  IF c = "TypeError" THEN [heap |-> heap, raised |-> TRUE]
             ELSE IF c = "lt"
                  THEN _siftdown([heap EXCEPT ![pos + 1] = parent], startpos, parentpos, newitem)
             ELSE [heap |-> [heap EXCEPT ![pos + 1] = newitem], raised |-> FALSE]
    ELSE [heap |-> [heap EXCEPT ![pos + 1] = newitem], raised |-> FALSE]

RECURSIVE _siftup(_, _, _, _)
\* heapq._siftup: the smaller child bubbles up to a leaf, then _siftdown
_siftup(heap, startpos, pos, newitem) ==
    LET endpos == Len(heap)
        childpos == 2 * pos + 1
        rightpos == childpos + 1
        c == IF rightpos < endpos
             THEN TupleLess(heap[childpos + 1], heap[rightpos + 1])
             ELSE "lt"
        chosen == IF c = "lt" THEN childpos ELSE rightpos
    IN  IF childpos < endpos
        THEN IF c = "TypeError" THEN [heap |-> heap, raised |-> TRUE]
             ELSE _siftup([heap EXCEPT ![pos + 1] = heap[chosen + 1]], startpos, chosen, newitem)
        ELSE _siftdown([heap EXCEPT ![pos + 1] = newitem], startpos, pos, newitem)

heappush(heap, item) == _siftdown(Append(heap, item), 0, Len(heap), item)

\* heappop: [item, raised]
heappop(heap) ==
    LET lastelt == heap[Len(heap)]
        rest == SubSeq(heap, 1, Len(heap) - 1)
    IN  IF rest = << >> THEN [item |-> lastelt, raised |-> FALSE]
        ELSE [item |-> rest[1],
              raised |-> _siftup([rest EXCEPT ![1] = lastelt], 0, 0, lastelt).raised]

-----------------------------------------------------------------------------
(* _find_best_slot *)

\* the duration test of the loop, always passed
DurationFitsAlways(period, duration) == TRUE

\* "if period + req.duration > self.periods_per_day: continue", negated
DurationFits(period, duration) == ~(period + duration > periods_per_day)

\* the candidates in the order the three nested loops push them:
\* day, then period, then the rooms of the type in catalog order
CandidateSlots(req, rooms_of_type, fs, rs, gs, cons) ==
    LET nr == Len(rooms_of_type)
        n == days * periods_per_day * nr
        dayOf(k) == k \div (periods_per_day * nr)
        periodOf(k) == (k \div nr) % periods_per_day
        roomOf(k) == rooms_of_type[(k % nr) + 1]
        scoreOf(k) == _evaluate_slot(TimeSlot(dayOf(k), periodOf(k)), req, roomOf(k),
                                     fs, rs, gs, cons)
        all == [i \in 1..n |->
                  LET k == i - 1
                  IN  [negscore |-> IF ~DurationFits(periodOf(k), req.duration)
                                    THEN 0 ELSE -scoreOf(k),
                       slot |-> TimeSlot(dayOf(k), periodOf(k)),
                       room |-> roomOf(k)]]
    IN  SelectSeq(all, LAMBDA c : c.negscore < 0)

RECURSIVE PushAll(_, _, _)
PushAll(heap, cands, i) ==
    IF i > Len(cands) THEN [heap |-> heap, raised |-> FALSE]
    ELSE LET r == heappush(heap, cands[i])
         IN  IF r.raised THEN r ELSE PushAll(r.heap, cands, i + 1)

\* [kind |-> "None" | "TypeError" | "slot", slot, room]
_find_best_slot(req, rooms_by_type, fs, rs, gs, cons) ==
    LET rooms_of_type == IF req.room_type \in DOMAIN rooms_by_type
                         THEN rooms_by_type[req.room_type] ELSE << >>
        nothing == [kind |-> "None", slot |-> None, room |-> None]
        failure == [kind |-> "TypeError", slot |-> None, room |-> None]
    IN  IF rooms_of_type = << >> THEN nothing
        ELSE LET cands == CandidateSlots(req, rooms_of_type, fs, rs, gs, cons)
                 pushed == PushAll(<< >>, cands, 1)
             IN  IF pushed.raised THEN failure
                 ELSE IF pushed.heap = << >> THEN nothing
                 ELSE LET popped == heappop(pushed.heap)
                      IN  IF popped.raised THEN failure
                          ELSE [kind |-> "slot", slot |-> popped.item.slot,
                                room |-> popped.item.room]

\* _allocate_slot: the busy set of id gains every period the class covers
_allocate_slot(sched, id, slot, duration) ==
    [k \in (DOMAIN sched) \cup {id} |->
        IF k = id
        THEN Busy(sched, id) \cup {TimeSlot(slot.day, slot.period + i) : i \in 0..(duration - 1)}
        ELSE sched[k]]

ClassInfo(req, slot, room) ==
    [subject_id |-> req.subject_id,
     subject_name |-> req.subject_name,
     faculty_id |-> req.faculty_id,
     student_group_id |-> req.student_group_id,
     room_id |-> room.room_id,
     room_name |-> room.room_id,
     day |-> slot.day,
     period |-> slot.period,
     time_slot |-> time_slots[slot.period + 1],
     duration |-> req.duration]

-----------------------------------------------------------------------------
(* _generate_schedule_output *)

\* A dict is modelled as the sequence of its [key, value] entries in
\* insertion order.
DictKeys(d) == {d[i].key : i \in DOMAIN d}
DictGet(d, k, default) ==
    IF k \in DictKeys(d) THEN d[CHOOSE i \in DOMAIN d : d[i].key = k].value ELSE default
\* d[k].append(x), creating d[k] = [] first when the key is missing
DictAppend(d, k, x) ==
    IF k \in DictKeys(d)
    THEN [i \in DOMAIN d |-> IF d[i].key = k
                             THEN [key |-> k, value |-> Append(d[i].value, x)]
                             ELSE d[i]]
    ELSE Append(d, [key |-> k, value |-> <<x>>])

RECURSIVE PopulateSchedule(_, _, _)
PopulateSchedule(weekly, classes, i) ==
    IF i > Len(classes) THEN weekly
    ELSE LET c == classes[i]
             day_name == day_names[c.day + 1]
         IN  PopulateSchedule(
                [weekly EXCEPT ![day_name] = DictAppend(@, c.time_slot, c)], classes, i + 1)

_generate_schedule_output(classes) ==
    LET total_slots == days * periods_per_day
        rate == [num |-> Len(classes) * 100, den |-> total_slots]
    IN  [weekly_schedule |-> PopulateSchedule([d \in Range(day_names) |-> << >>], classes, 1),
         statistics |-> [total_classes_scheduled |-> Len(classes),
                         total_available_slots |-> total_slots,
                         utilization_rate |-> rate],
         conflicts |-> << >>,
         utilization_rate |-> rate,
         algorithm |-> "Greedy",
         subjects |-> {classes[i].subject_id : i \in DOMAIN classes},
         faculty |-> {classes[i].faculty_id : i \in DOMAIN classes},
         rooms |-> {classes[i].room_id : i \in DOMAIN classes},
         student_groups |-> {classes[i].student_group_id : i \in DOMAIN classes}]

-----------------------------------------------------------------------------
(* The catalogs the greedy scheduler is run on *)

AllCells == {TimeSlot(d, p) : d \in 0..(days - 1), p \in 0..(periods_per_day - 1)}

DayTitles == << "Monday", "Tuesday", "Wednesday", "Thursday", "Friday" >>

\* the unavailable_slots list that leaves exactly the cells of `open` available
UnavailableExcept(open) ==
    {SlotString(DayTitles[c.day + 1], c.period) : c \in AllCells \ open}

\* the cells a faculty member keeps available; AllCells: nothing is unavailable
Windows ==
    { AllCells,
      {},
      {TimeSlot(0, 4)},
      {TimeSlot(0, 4), TimeSlot(0, 5)},
      {TimeSlot(0, 4), TimeSlot(0, 5), TimeSlot(0, 6)},
      {TimeSlot(0, 6), TimeSlot(0, 7)},
      {TimeSlot(0, 6)},
      {TimeSlot(0, 7)},
      {TimeSlot(0, 4), TimeSlot(1, 4)},
      AllCells \ {TimeSlot(0, p) : p \in 0..(periods_per_day - 1)} }

\* slot strings that name no slot
MalformedSlots ==
    { {},
      {[day |-> "Monday4", seps |-> 0, period |-> 0, period_is_int |-> FALSE]},
      {[day |-> "Funday", seps |-> 1, period |-> 4, period_is_int |-> TRUE]} }

Faculty(id, open, extra, preferred) ==
    [faculty_id |-> id,
     unavailable_slots |-> UnavailableExcept(open) \cup extra,
     preferred_days |-> preferred,
     max_consecutive_hours |-> 3,
     min_gap |-> 0]

FacultyLists ==
    {<<Faculty("F1", w, x, p)>> : w \in Windows, x \in MalformedSlots,
                                   p \in {<< >>, <<"Tuesday">>}}
    \cup {<<Faculty("F1", w, {}, << >>), Faculty("F2", {TimeSlot(0, 4)}, {}, << >>)>> :
             w \in Windows}
    \cup {<< >>}

Mathematics ==
    [subject_id |-> "MATH", name |-> "Mathematics", faculty_id |-> "F1", type |-> "Major",
     credits |-> 4, theory_hours |-> 3, practical_hours |-> 0,
     programs |-> <<"FYUP">>, semester |-> 1]

Workshop ==
    [subject_id |-> "WS", name |-> "Workshop", faculty_id |-> "F1", type |-> "skill",
     credits |-> 2, theory_hours |-> 0, practical_hours |-> 2,
     programs |-> << >>, semester |-> 1]

Art ==
    [subject_id |-> "ART", name |-> "Art", faculty_id |-> "F2", type |-> "value_added",
     credits |-> 2, theory_hours |-> 1, practical_hours |-> 0,
     programs |-> << >>, semester |-> 1]

SubjectLists ==
    { <<Mathematics>>, <<Workshop>>, <<Art, Mathematics>>, <<Workshop, Mathematics>>,
      <<Workshop, Art>> }

Group(id) == [group_id |-> id, program |-> "fyup", semester |-> 1]

GroupLists == { <<Group("G1")>>, <<Group("G1"), Group("G2")>> }

Room(id, type, capacity) == [room_id |-> id, type |-> type, capacity |-> capacity]

RoomLists ==
    { <<Room("R1", "lecture", 60)>>,
      <<Room("R1", "lecture", 60), Room("R2", "lecture", 20)>>,
      <<Room("L1", "lab", 40), Room("R1", "lecture", 60)>>,
      <<Room("L1", "lab", 40)>> }

\* a practical-only subject of one faculty member
LabCourse(id, name, faculty) ==
    [subject_id |-> id, name |-> name, faculty_id |-> faculty, type |-> "Major",
     credits |-> 2, theory_hours |-> 0, practical_hours |-> 2,
     programs |-> << >>, semester |-> 1]

EveningMathematics ==
    [subject_id |-> "MATH", name |-> "Mathematics", faculty_id |-> "F4",
     type |-> "value_added", credits |-> 2, theory_hours |-> 1, practical_hours |-> 0,
     programs |-> << >>, semester |-> 1]

\* one cohort whose three practicals fill Monday's first six periods, and a
\* mathematics teacher who is available in Monday's seventh period only
CrowdedDayCatalog ==
    [subjects |-> <<LabCourse("BOT", "Botany", "F1"), LabCourse("ZOO", "Zoology", "F2"),
                    LabCourse("GEO", "Geology", "F3"), EveningMathematics>>,
     student_groups |-> <<Group("G1")>>,
     rooms |-> <<Room("L1", "lab", 40), Room("R2", "lecture", 20)>>,
     faculty |-> <<Faculty("F1", {TimeSlot(0, 0), TimeSlot(0, 1)}, {}, << >>),
                   Faculty("F2", {TimeSlot(0, 2), TimeSlot(0, 3)}, {}, << >>),
                   Faculty("F3", {TimeSlot(0, 4), TimeSlot(0, 5)}, {}, << >>),
                   Faculty("F4", {TimeSlot(0, 6)}, {}, << >>)>>]

Catalogs ==
    [subjects : SubjectLists, student_groups : GroupLists,
     rooms : RoomLists, faculty : FacultyLists]
    \cup {CrowdedDayCatalog}

\* subjects by credits, hours and the cohorts they are for: the programme of
\* the groups, another programme, or any programme in a later semester
SubjectShapes ==
    {[name |-> "Subject", faculty_id |-> "F1", type |-> "Major",
      credits |-> credits, theory_hours |-> hours[1], practical_hours |-> hours[2],
      programs |-> offered.programs, semester |-> offered.semester] :
        credits \in {1, 5, 8},
        hours \in {<<3, 0>>, <<0, 2>>, <<3, 2>>, <<0, 0>>},
        offered \in {[programs |-> <<"FYUP">>, semester |-> 1],
                     [programs |-> <<"B.Ed.">>, semester |-> 1],
                     [programs |-> << >>, semester |-> 2]}}

SubjectIds == <<"S1", "S2", "S3", "S4">>

WithSubjectId(shape, id) ==
    [k \in (DOMAIN shape) \cup {"subject_id"} |->
        IF k = "subject_id" THEN id ELSE shape[k]]

\* catalogs of up to MaxSubjects subjects with ids of their own
NormalizerCatalogs ==
    {[subjects |-> [i \in DOMAIN shapes |-> WithSubjectId(shapes[i], SubjectIds[i])],
      student_groups |-> groups, rooms |-> << >>, faculty |-> << >>] :
        shapes \in UNION {[1..n -> SubjectShapes] : n \in 1..MaxSubjects},
        groups \in GroupLists}

-----------------------------------------------------------------------------
(* GreedyScheduler: state and operations *)

\* __init__
GreedyInit ==
    /\ schedule_matrix = << >>
    /\ faculty_schedule = << >>
    /\ room_schedule = << >>
    /\ group_schedule = << >>
    /\ constraints = << >>
    /\ request_data \in Catalogs
    /\ requirements = << >>
    /\ available_rooms = << >>
    /\ req_idx = 0
    /\ occurrence = 0
    /\ scheduled_classes = << >>
    /\ gpc = "idle"
    /\ gerror = None
    /\ returned = << >>

_initialize_schedule_matrix ==
    [d \in 0..(days - 1) |-> [p \in 0..(periods_per_day - 1) |-> None]]

\* generate_initial_schedule up to the scheduling loop; the busy sets are
\* not touched
GenerateInitialSchedule ==
    /\ gpc \in {"idle", "returned"}
    /\ Len(returned) < MaxRuns
    /\ ~ParseFacultyRaises(request_data)
    /\ schedule_matrix' = _initialize_schedule_matrix
    /\ requirements' = _parse_class_requirements(request_data)
    /\ available_rooms' = _parse_room_data(request_data)
    /\ constraints' = DictUpdate(constraints, _parse_faculty_constraints(request_data))
    /\ req_idx' = 1
    /\ occurrence' = 0
    /\ scheduled_classes' = << >>
    /\ gpc' = "scheduling"
    /\ UNCHANGED <<faculty_schedule, room_schedule, group_schedule, request_data,
                   gerror, returned>>
    /\ UNCHANGED NotGreedy

\* generate_initial_schedule when _parse_faculty_constraints raises
GenerateInitialScheduleRaises ==
    /\ gpc = "idle"
    /\ ParseFacultyRaises(request_data)
    /\ schedule_matrix' = _initialize_schedule_matrix
    /\ gpc' = "raised"
    /\ gerror' = "ValueError"
    /\ UNCHANGED <<faculty_schedule, room_schedule, group_schedule, constraints,
                   request_data, requirements, available_rooms, req_idx, occurrence,
                   scheduled_classes, returned>>
    /\ UNCHANGED NotGreedy

\* _parse_class_requirements called by itself
ParseClassRequirements ==
    /\ gpc = "idle"
    /\ requirements' = _parse_class_requirements(request_data)
    /\ gpc' = "parsed"
    /\ UNCHANGED <<schedule_matrix, faculty_schedule, room_schedule, group_schedule,
                   constraints, request_data, available_rooms, req_idx, occurrence,
                   scheduled_classes, gerror, returned>>
    /\ UNCHANGED NotGreedy

CurrentReq == requirements[req_idx]

CurrentBest ==
    _find_best_slot(CurrentReq, available_rooms, faculty_schedule, room_schedule,
                    group_schedule, constraints)

\* the loop counters after one occurrence
Advance ==
    IF occurrence + 1 < CurrentReq.weekly_frequency
    THEN /\ occurrence' = occurrence + 1
         /\ req_idx' = req_idx
    ELSE /\ occurrence' = 0
         /\ req_idx' = req_idx + 1

\* one occurrence of the loop of _schedule_classes_greedily: a slot is found
CommitOccurrence ==
    /\ gpc = "scheduling"
    /\ req_idx <= Len(requirements)
    /\ LET best == CurrentBest
           req == CurrentReq
       IN  /\ best.kind = "slot"
           /\ faculty_schedule' =
                _allocate_slot(faculty_schedule, req.faculty_id, best.slot, req.duration)
           /\ room_schedule' =
                _allocate_slot(room_schedule, best.room.room_id, best.slot, req.duration)
           /\ group_schedule' =
                _allocate_slot(group_schedule, req.student_group_id, best.slot, req.duration)
           /\ scheduled_classes' =
                Append(scheduled_classes, ClassInfo(req, best.slot, best.room))
    /\ Advance
    /\ UNCHANGED <<schedule_matrix, constraints, request_data, requirements,
                   available_rooms, gpc, gerror, returned>>
    /\ UNCHANGED NotGreedy

\* one occurrence for which _find_best_slot returns None: a warning is printed
SkipOccurrence ==
    /\ gpc = "scheduling"
    /\ req_idx <= Len(requirements)
    /\ CurrentBest.kind = "None"
    /\ Advance
    /\ UNCHANGED <<schedule_matrix, faculty_schedule, room_schedule, group_schedule,
                   constraints, request_data, requirements, available_rooms,
                   scheduled_classes, gpc, gerror, returned>>
    /\ UNCHANGED NotGreedy

\* one occurrence in which heapq compares two tuples it cannot order
FindBestSlotRaises ==
    /\ gpc = "scheduling"
    /\ req_idx <= Len(requirements)
    /\ CurrentBest.kind = "TypeError"
    /\ gpc' = "raised"
    /\ gerror' = "TypeError"
    /\ UNCHANGED <<schedule_matrix, faculty_schedule, room_schedule, group_schedule,
                   constraints, request_data, requirements, available_rooms, req_idx,
                   occurrence, scheduled_classes, returned>>
    /\ UNCHANGED NotGreedy

\* the loop is over: _generate_schedule_output and return
ReturnSchedule ==
    /\ gpc = "scheduling"
    /\ req_idx > Len(requirements)
    /\ returned' = Append(returned, _generate_schedule_output(scheduled_classes))
    /\ gpc' = "returned"
    /\ UNCHANGED <<schedule_matrix, faculty_schedule, room_schedule, group_schedule,
                   constraints, request_data, requirements, available_rooms, req_idx,
                   occurrence, scheduled_classes, gerror>>
    /\ UNCHANGED NotGreedy

GreedyNext ==
    \/ GenerateInitialSchedule
    \/ GenerateInitialScheduleRaises
    \/ CommitOccurrence
    \/ SkipOccurrence
    \/ FindBestSlotRaises
    \/ ReturnSchedule

-----------------------------------------------------------------------------
(* ConflictResolver: detection *)

\* Python truthiness of an id: None and '' are skipped by `if faculty_id:`
Falsy(x) == x = None \/ x = ""

\* class_info.get('group_id') or class_info.get('student_group_id')
GroupIdOf(c) == IF ~Falsy(c.group_id) THEN c.group_id ELSE c.student_group_id

\* the id a detector buckets a class by
EntityOf(kind, c) ==
    CASE kind = "faculty" -> c.faculty_id
      [] kind = "room" -> c.room_id
      [] kind = "student" -> GroupIdOf(c)

ConflictType(kind) ==
    CASE kind = "faculty" -> "faculty_overlap"
      [] kind = "room" -> "room_booking"
      [] kind = "student" -> "student_clash"

RECURSIVE SlotEntries(_, _, _, _)
\* the classes of one time slot, as [day, time_slot, ref] entries
SlotEntries(day, time_slot, refs, i) ==
    IF i > Len(refs) THEN << >>
    ELSE <<[day |-> day, time_slot |-> time_slot, ref |-> refs[i]]>>
         \o SlotEntries(day, time_slot, refs, i + 1)

RECURSIVE DayEntries(_, _, _)
DayEntries(day, day_schedule, i) ==
    IF i > Len(day_schedule) THEN << >>
    ELSE SlotEntries(day, day_schedule[i].key, day_schedule[i].value, 1)
         \o DayEntries(day, day_schedule, i + 1)

RECURSIVE WeekEntries(_, _)
\* every class of the schedule in iteration order: days, then time slots in
\* insertion order, then the list of the slot
WeekEntries(weekly, d) ==
    IF d > Len(day_names) THEN << >>
    ELSE DayEntries(day_names[d], weekly[day_names[d]], 1) \o WeekEntries(weekly, d + 1)

RECURSIVE FirstOccurrences(_)
\* the distinct elements of a sequence in the order of their first occurrence
\* (the key order of a dict filled in that order)
FirstOccurrences(seq) ==
    IF seq = << >> THEN << >>
    ELSE LET front == FirstOccurrences(SubSeq(seq, 1, Len(seq) - 1))
             last == seq[Len(seq)]
         IN  IF last \in Range(front) THEN front ELSE Append(front, last)

RECURSIVE BucketsInOrder(_, _, _)
\* the (entity, cell) buckets: entities in first-occurrence order, and for
\* each entity its cells in first-occurrence order
BucketsInOrder(pairs, entities, i) ==
    IF i > Len(entities) THEN << >>
    ELSE SelectSeq(pairs, LAMBDA b : b.entity = entities[i])
         \o BucketsInOrder(pairs, entities, i + 1)

\* one detector: a Conflict for every bucket of more than one class, numbered
\* from conflict_count = n0
DetectKind(kind, weekly, store, n0) ==
    LET entries == SelectSeq(WeekEntries(weekly, 1),
                             LAMBDA e : ~Falsy(EntityOf(kind, store[e.ref])))
        bucketOf(e) == [entity |-> EntityOf(kind, store[e.ref]),
                        day |-> e.day, time_slot |-> e.time_slot]
        pairs == FirstOccurrences([i \in DOMAIN entries |-> bucketOf(entries[i])])
        entities == FirstOccurrences([i \in DOMAIN pairs |-> pairs[i].entity])
        members(b) == SelectSeq(entries, LAMBDA e : bucketOf(e) = b)
        clashing == SelectSeq(BucketsInOrder(pairs, entities, 1),
                              LAMBDA b : Len(members(b)) > 1)
    IN  [i \in DOMAIN clashing |->
            [conflict_id |-> [kind |-> kind, n |-> n0 + i - 1],
             conflict_type |-> ConflictType(kind),
             severity |-> "critical",
             entity |-> clashing[i].entity,
             affected_classes |->
                [k \in DOMAIN members(clashing[i]) |-> members(clashing[i])[k].ref],
             time_slot |-> clashing[i].time_slot,
             day |-> clashing[i].day]]

_detect_faculty_conflicts(weekly, store, n0) == DetectKind("faculty", weekly, store, n0)

_detect_room_conflicts(weekly, store, n0) == DetectKind("room", weekly, store, n0)

\* the cohort detector left as a mock, like the capacity detector
StudentDetectorMock(weekly, store, n0) == << >>

_detect_student_group_conflicts(weekly, store, n0) == DetectKind("student", weekly, store, n0)

\* the mock: no capacity conflict is ever reported
_detect_capacity_conflicts(weekly, store, n0) == << >>

\* the four detectors each numbering from the count the call started with
DetectAllFromOneCount(weekly, store, n0) ==
    _detect_faculty_conflicts(weekly, store, n0)
    \o _detect_room_conflicts(weekly, store, n0)
    \o _detect_student_group_conflicts(weekly, store, n0)
    \o _detect_capacity_conflicts(weekly, store, n0)

\* asyncio.gather over four coroutines that never await: they run one after
\* the other, in the order of the task list
_detect_all_conflicts(weekly, store, n0) ==
    LET f == _detect_faculty_conflicts(weekly, store, n0)
        r == _detect_room_conflicts(weekly, store, n0 + Len(f))
        g == _detect_student_group_conflicts(weekly, store, n0 + Len(f) + Len(r))
        c == _detect_capacity_conflicts(weekly, store, n0 + Len(f) + Len(r) + Len(g))
    IN  f \o r \o g \o c

-----------------------------------------------------------------------------
(* ConflictResolver: repair *)

SlotClasses(weekly, day, time_slot) == DictGet(weekly[day], time_slot, << >>)

_is_slot_available(weekly, store, day, time_slot, faculty_id, group_id) ==
    \A i \in DOMAIN SlotClasses(weekly, day, time_slot) :
        LET c == store[SlotClasses(weekly, day, time_slot)[i]]
        IN  /\ c.faculty_id # faculty_id
            /\ c.group_id # group_id
            /\ c.student_group_id # group_id

\* the first available (day, time slot), days Monday to Friday and the time
\* slots of the day in order; found = FALSE stands for None
_find_available_slot(weekly, store, ref) ==
    LET faculty_id == store[ref].faculty_id
        group_id == IF Falsy(GroupIdOf(store[ref])) THEN None ELSE GroupIdOf(store[ref])
        n == Len(day_names) * Len(time_slots)
        dayOf(k) == day_names[(k \div Len(time_slots)) + 1]
        slotOf(k) == time_slots[(k % Len(time_slots)) + 1]
        free == {k \in 0..(n - 1) :
                    _is_slot_available(weekly, store, dayOf(k), slotOf(k), faculty_id, group_id)}
    IN  IF free = {} THEN [found |-> FALSE, day |-> None, time_slot |-> None]
        ELSE LET k == CHOOSE k \in free : \A m \in free : k <= m
             IN  [found |-> TRUE, day |-> dayOf(k), time_slot |-> slotOf(k)]

\* d[k] = v on a dict: the key keeps its position, a new key goes last
DictSet(d, k, v) ==
    IF k \in DictKeys(d)
    THEN [i \in DOMAIN d |-> IF d[i].key = k THEN [key |-> k, value |-> v] ELSE d[i]]
    ELSE Append(d, [key |-> k, value |-> v])

\* the list of the cell without every class equal (as a dict) to the class
_remove_class_from_schedule(weekly, store, day, time_slot, ref) ==
    [weekly EXCEPT ![day] =
        DictSet(@, time_slot,
                SelectSeq(SlotClasses(weekly, day, time_slot),
                          LAMBDA r : store[r] # store[ref]))]

_add_class_to_schedule(weekly, day, time_slot, ref) ==
    [weekly EXCEPT ![day] = DictAppend(@, time_slot, ref)]

\* the weekly schedule after _resolve_faculty_conflict
_resolve_faculty_conflict(weekly, store, conflict) ==
    LET affected == conflict.affected_classes
        class_to_move == affected[Len(affected)]
        available_slot == _find_available_slot(weekly, store, class_to_move)
    IN  IF Len(affected) < 2 THEN weekly
        ELSE IF ~available_slot.found THEN weekly
        ELSE _add_class_to_schedule(
                _remove_class_from_schedule(weekly, store, conflict.day,
                                            conflict.time_slot, class_to_move),
                available_slot.day, available_slot.time_slot, class_to_move)

_resolve_student_conflict(weekly, store, conflict) ==
    _resolve_faculty_conflict(weekly, store, conflict)

\* the hard-coded room list of _find_available_room
available_room_list == << "R101", "R102", "R103", "L201", "L202", "L203" >>

_find_available_room(weekly, store, day, time_slot) ==
    LET occupied_rooms == {store[r].room_id : r \in Range(SlotClasses(weekly, day, time_slot))}
                          \ {None, ""}
        free == {i \in DOMAIN available_room_list : available_room_list[i] \notin occupied_rooms}
    IN  IF free = {} THEN None
        ELSE available_room_list[CHOOSE i \in free : \A j \in free : i <= j]

\* the class dicts after _resolve_room_conflict: the last affected class is
\* given the room found, in place
_resolve_room_conflict(weekly, store, conflict) ==
    LET affected == conflict.affected_classes
        class_to_reassign == affected[Len(affected)]
        alternative_room == _find_available_room(weekly, store, conflict.day, conflict.time_slot)
    IN  IF Len(affected) < 2 THEN store
        ELSE IF alternative_room = None THEN store
        ELSE [store EXCEPT ![class_to_reassign] =
                [@ EXCEPT !.room_id = alternative_room,
                          !.room_name = "Room " \o alternative_room]]

-----------------------------------------------------------------------------
(* The schedules the resolver is run on *)

ClassAt(faculty, room, group, day, time_slot) ==
    [class |-> [subject_id |-> "S", faculty_id |-> faculty, room_id |-> room,
                room_name |-> None, group_id |-> group, student_group_id |-> None],
     day |-> day, time_slot |-> time_slot]

\* the placed classes input schedules are built from (the class dicts have
\* the keys _chromosome_to_schedule gives them)
ClassPool ==
    { ClassAt("F1", "R101", "G1", "monday", "09:00-10:00"),
      ClassAt("F1", "R102", "G2", "monday", "09:00-10:00"),
      ClassAt("F1", "R103", "G3", "monday", "09:00-10:00"),
      ClassAt("F2", "R103", "G4", "monday", "10:00-11:00"),
      ClassAt("F2", "R101", "G1", "monday", "09:00-10:00"),
      ClassAt("F3", "R102", "G2", "tuesday", "09:00-10:00"),
      ClassAt("F3", "R102", "G5", "tuesday", "09:00-10:00") }

\* how many classes an input schedule holds at most
MaxClasses == 4

InputSchedules == UNION {[1..n -> ClassPool] : n \in 0..MaxClasses}

RECURSIVE BuildWeekly(_, _, _)
\* the weekly schedule a producer builds by appending the classes in order
BuildWeekly(weekly, placed, i) ==
    IF i > Len(placed) THEN weekly
    ELSE BuildWeekly(
            [weekly EXCEPT ![placed[i].day] = DictAppend(@, placed[i].time_slot, i)],
            placed, i + 1)

EmptyWeek == [d \in Range(day_names) |-> << >>]

-----------------------------------------------------------------------------
(* ConflictResolver: state and operations *)

\* __init__, and a schedule about to be handed to resolve_conflicts
ResolverInit ==
    /\ conflict_count = 0
    /\ \E placed \in InputSchedules :
          /\ rclasses = [i \in DOMAIN placed |-> placed[i].class]
          /\ rschedule = BuildWeekly(EmptyWeek, placed, 1)
    /\ rinput = [weekly_schedule |-> rschedule, classes |-> rclasses]
    /\ rconflicts = << >>
    /\ rnext = 0
    /\ rresidual = << >>
    /\ rpc = "idle"

\* the resolver is not run
ResolverIdle ==
    /\ conflict_count = 0
    /\ rclasses = << >>
    /\ rschedule = EmptyWeek
    /\ rinput = [weekly_schedule |-> EmptyWeek, classes |-> << >>]
    /\ rconflicts = << >>
    /\ rnext = 0
    /\ rresidual = << >>
    /\ rpc = "off"

\* resolve_conflicts: the first detection finds conflicts
DetectConflicts ==
    /\ rpc = "idle"
    /\ LET found == _detect_all_conflicts(rschedule, rclasses, conflict_count)
       IN  /\ found # << >>
           /\ rconflicts' = found
           /\ conflict_count' = conflict_count + Len(found)
    /\ rnext' = 1
    /\ rpc' = "repair"
    /\ UNCHANGED <<rclasses, rschedule, rinput, rresidual>>
    /\ UNCHANGED NotResolver

\* resolve_conflicts: the first detection finds nothing
DetectNoConflicts ==
    /\ rpc = "idle"
    /\ _detect_all_conflicts(rschedule, rclasses, conflict_count) = << >>
    /\ rresidual' = << >>
    /\ rpc' = "done"
    /\ UNCHANGED <<conflict_count, rclasses, rschedule, rinput, rconflicts, rnext>>
    /\ UNCHANGED NotResolver

\* one iteration of the loop of _auto_resolve_conflicts (every conflict is
\* critical)
RepairFacultyOrStudent ==
    /\ rpc = "repair"
    /\ rnext <= Len(rconflicts)
    /\ rconflicts[rnext].conflict_type \in {"faculty_overlap", "student_clash"}
    /\ rschedule' = IF rconflicts[rnext].conflict_type = "faculty_overlap"
                    THEN _resolve_faculty_conflict(rschedule, rclasses, rconflicts[rnext])
                    ELSE _resolve_student_conflict(rschedule, rclasses, rconflicts[rnext])
    /\ rnext' = rnext + 1
    /\ UNCHANGED <<conflict_count, rclasses, rinput, rconflicts, rresidual, rpc>>
    /\ UNCHANGED NotResolver

RepairRoom ==
    /\ rpc = "repair"
    /\ rnext <= Len(rconflicts)
    /\ rconflicts[rnext].conflict_type = "room_booking"
    /\ rclasses' = _resolve_room_conflict(rschedule, rclasses, rconflicts[rnext])
    /\ rnext' = rnext + 1
    /\ UNCHANGED <<conflict_count, rschedule, rinput, rconflicts, rresidual, rpc>>
    /\ UNCHANGED NotResolver

\* resolve_conflicts attaching an empty list after the repairs
RemainingAssumedResolved(weekly, store, n0) == << >>

\* the conflicts resolve_conflicts attaches after the repairs
remaining_conflicts(weekly, store, n0) == _detect_all_conflicts(weekly, store, n0)

\* resolve_conflicts after the repairs: detect again, attach, return
RecheckConflicts ==
    /\ rpc = "repair"
    /\ rnext > Len(rconflicts)
    /\ rresidual' = remaining_conflicts(rschedule, rclasses, conflict_count)
    /\ conflict_count' = conflict_count + Len(rresidual')
    /\ rpc' = "done"
    /\ UNCHANGED <<rclasses, rschedule, rinput, rconflicts, rnext>>
    /\ UNCHANGED NotResolver

ResolverNext ==
    \/ DetectConflicts
    \/ DetectNoConflicts
    \/ RepairFacultyOrStudent
    \/ RepairRoom
    \/ RecheckConflicts

-----------------------------------------------------------------------------
(* GeneticScheduler: fitness (genetic_algorithm.py) *)

\* Scores are exact integers: a sub-score s of the code is kept as
\* s * FitnessScale and a total score t as t * FitnessUnit, so that every
\* division of the code is exact for chromosomes of up to six genes.
FitnessScale == 42 * 60
FitnessUnit == 100 * FitnessScale

\* float('-inf'): below every total score
NegInf == -1

heavy_subjects == {"mathematics", "physics", "chemistry", "advanced_math"}

RECURSIVE SumSeq(_)
SumSeq(s) == IF s = << >> THEN 0 ELSE Head(s) + SumSeq(Tail(s))

\* list.sort(key=lambda x: x.time_slot): ascending and stable
SortByTimeSlot(s) ==
    LET rank(i) == 1 + Cardinality({j \in DOMAIN s :
                        \/ s[j].time_slot < s[i].time_slot
                        \/ (s[j].time_slot = s[i].time_slot /\ j < i)})
    IN  [k \in DOMAIN s |-> s[CHOOSE i \in DOMAIN s : rank(i) = k]]

\* the conflict score without the floor at 0
ConflictScoreUnfloored(genes) ==
    LET n == Len(genes)
        repeats(field) ==
            n - Cardinality({<<genes[i][field], genes[i].day, genes[i].time_slot>> :
                                i \in DOMAIN genes})
        conflicts == repeats("faculty_id") + repeats("room_id")
                        + repeats("student_group_id")
    IN  IF n = 0 THEN 100 * FitnessScale
        ELSE 100 * FitnessScale - (conflicts * 200 * FitnessScale) \div n

_evaluate_conflicts(genes) ==
    LET n == Len(genes)
        \* the genes that find their time_key already in the entity's set
        repeats(field) ==
            n - Cardinality({<<genes[i][field], genes[i].day, genes[i].time_slot>> :
                                i \in DOMAIN genes})
        conflicts == repeats("faculty_id") + repeats("room_id")
                        + repeats("student_group_id")
    IN  IF n = 0 THEN 100 * FitnessScale
        ELSE Max(0, 100 * FitnessScale - (conflicts * 200 * FitnessScale) \div n)

_evaluate_utilization(genes) ==
    LET hours(field, i) ==
            Cardinality({j \in DOMAIN genes : genes[j][field] = genes[i][field]})
        first(field, i) == \A j \in 1..(i - 1) : genes[j][field] # genes[i][field]
        count(field) == Cardinality({genes[i][field] : i \in DOMAIN genes})
        ideal_faculty_hours == 6
        ideal_room_hours == 7
        faculty_utilization(h) ==
            IF h > ideal_faculty_hours
            THEN Max(0, 100 - (h - ideal_faculty_hours) * 10) * FitnessScale
            ELSE Min(100 * FitnessScale, (h * 100 * FitnessScale) \div ideal_faculty_hours)
        room_utilization(h) ==
            Min(100 * FitnessScale, (h * 100 * FitnessScale) \div ideal_room_hours)
        avg_faculty_util ==
            SumSeq([i \in DOMAIN genes |->
                      IF first("faculty_id", i)
                      THEN faculty_utilization(hours("faculty_id", i)) ELSE 0])
                \div count("faculty_id")
        avg_room_util ==
            SumSeq([i \in DOMAIN genes |->
                      IF first("room_id", i)
                      THEN room_utilization(hours("room_id", i)) ELSE 0])
                \div count("room_id")
    IN  IF genes = << >> THEN 0
        ELSE (avg_faculty_util + avg_room_util) \div 2

\* the genes of the entity of gene i on any day, sorted by time slot
GenesOfAllDays(genes, field, i) ==
    SortByTimeSlot(SelectSeq(genes, LAMBDA g : g[field] = genes[i][field]))

\* the genes of the (entity, day) list gene i belongs to, sorted by time slot
DayGenes(genes, field, i) ==
    SortByTimeSlot(SelectSeq(genes,
        LAMBDA g : g[field] = genes[i][field] /\ g.day = genes[i].day))

\* gene i is the one that creates its (entity, day) list
OpensDayList(genes, field, i) ==
    \A j \in 1..(i - 1) :
        ~(genes[j][field] = genes[i][field] /\ genes[j].day = genes[i].day)

_evaluate_green_optimization(genes) ==
    LET movements(i) ==
            LET day_genes == DayGenes(genes, "faculty_id", i)
            IN  Cardinality({k \in 1..(Len(day_genes) - 1) :
                                day_genes[k].room_id # day_genes[k + 1].room_id})
        total_movements ==
            SumSeq([i \in DOMAIN genes |->
                      IF OpensDayList(genes, "faculty_id", i) THEN movements(i) ELSE 0])
        total_possible_movements ==
            SumSeq([i \in DOMAIN genes |->
                      IF OpensDayList(genes, "faculty_id", i)
                      THEN Len(DayGenes(genes, "faculty_id", i)) - 1 ELSE 0])
    IN  IF genes = << >> THEN 100 * FitnessScale
        ELSE IF total_possible_movements = 0 THEN 100 * FitnessScale
        ELSE Max(0, 100 * FitnessScale
                      - (total_movements * 100 * FitnessScale) \div total_possible_movements)

\* the test of consecutive time slots, passed by two genes of one slot too
BackToBackOrTogether(current, next) == next.time_slot <= current.time_slot + 1

\* "if day_genes[i + 1].time_slot == day_genes[i].time_slot + 1"
BackToBack(current, next) == next.time_slot = current.time_slot + 1

_evaluate_fatigue_prevention(genes) ==
    LET consecutive(day_genes) ==
            {k \in 1..(Len(day_genes) - 1) :
                BackToBack(day_genes[k], day_genes[k + 1])}
        violations(day_genes) ==
            {k \in consecutive(day_genes) :
                /\ Lower(day_genes[k].subject_id) \in heavy_subjects
                /\ Lower(day_genes[k + 1].subject_id) \in heavy_subjects}
        total_checks ==
            SumSeq([i \in DOMAIN genes |->
                      IF OpensDayList(genes, "student_group_id", i)
                      THEN Cardinality(consecutive(DayGenes(genes, "student_group_id", i)))
                      ELSE 0])
        fatigue_violations ==
            SumSeq([i \in DOMAIN genes |->
                      IF OpensDayList(genes, "student_group_id", i)
                      THEN Cardinality(violations(DayGenes(genes, "student_group_id", i)))
                      ELSE 0])
    IN  IF genes = << >> THEN 100 * FitnessScale
        ELSE IF total_checks = 0 THEN 100 * FitnessScale
        ELSE Max(0, 100 * FitnessScale
                      - (fatigue_violations * 100 * FitnessScale) \div total_checks)

_calculate_fitness(genes) ==
    LET conflict_score == _evaluate_conflicts(genes)
        utilization_score == _evaluate_utilization(genes)
        green_score == _evaluate_green_optimization(genes)
        fatigue_score == _evaluate_fatigue_prevention(genes)
    IN  [total_score |-> conflict_score * 40 + utilization_score * 25
                            + green_score * 20 + fatigue_score * 15,
         conflicts |-> 100 * FitnessScale - conflict_score,
         utilization |-> utilization_score,
         green_score |-> green_score,
         fatigue_score |-> fatigue_score]

-----------------------------------------------------------------------------
(* GeneticScheduler: chromosomes *)

\* dict.get(key, default) on a dict modelled as a record
Get(d, key, default) == IF key \in DOMAIN d THEN d[key] ELSE default

_time_to_slot_index(time_str) == Max(0, IndexOf(time_slots, time_str))

_slot_index_to_time(index) == time_slots[Min(index, Len(time_slots) - 1) + 1]

\* the dataclass Gene
Gene(subject_id, faculty_id, room_id, student_group_id, day, time_slot) ==
    [subject_id |-> subject_id, faculty_id |-> faculty_id, room_id |-> room_id,
     student_group_id |-> student_group_id, day |-> day, time_slot |-> time_slot]

\* the dataclass Chromosome; genes holds Gene objects or, for a deep copy
\* that nothing else refers to, their values
Chromosome(genes) ==
    [genes |-> genes, fitness_score |-> 0, conflict_count |-> 0,
     utilization_score |-> 0, green_score |-> 0, fatigue_score |-> 0]

\* the genes of the classes of one day, slot by slot in dict order
RECURSIVE GenesOfDay(_, _, _)
GenesOfDay(day_schedule, day_idx, i) ==
    IF i > Len(day_schedule) THEN << >>
    ELSE LET classes == day_schedule[i].value
             slot_idx == _time_to_slot_index(day_schedule[i].key)
         IN  [k \in DOMAIN classes |->
                 Gene(Get(classes[k], "subject_id", ""),
                      Get(classes[k], "faculty_id", ""),
                      Get(classes[k], "room_id", ""),
                      Get(classes[k], "group_id", ""),
                      day_idx, slot_idx)]
             \o GenesOfDay(day_schedule, day_idx, i + 1)

RECURSIVE GenesOfWeek(_, _)
GenesOfWeek(weekly, d) ==
    IF d > Len(day_names) THEN << >>
    ELSE GenesOfDay(weekly[day_names[d]], IndexOf(day_names, Lower(day_names[d])), 1)
            \o GenesOfWeek(weekly, d + 1)

\* the genes of the base chromosome, by value
_schedule_to_chromosome(schedule) == GenesOfWeek(schedule.weekly_schedule, 1)

RECURSIVE PopulateFromGenes(_, _, _)
PopulateFromGenes(weekly, genes, i) ==
    IF i > Len(genes) THEN weekly
    ELSE LET gene == genes[i]
             class_info == [subject_id |-> gene.subject_id,
                            faculty_id |-> gene.faculty_id,
                            room_id |-> gene.room_id,
                            group_id |-> gene.student_group_id]
         IN  PopulateFromGenes(
                [weekly EXCEPT ![day_names[gene.day + 1]] =
                    DictAppend(@, _slot_index_to_time(gene.time_slot), class_info)],
                genes, i + 1)

\* chromosome.genes by value
_chromosome_to_schedule(chromosome, n_generations, n_population) ==
    [weekly_schedule |->
        PopulateFromGenes([d \in Range(day_names) |-> << >>], chromosome.genes, 1),
     optimization_metrics |->
        [fitness_score |-> chromosome.fitness_score,
         conflict_count |-> chromosome.conflict_count,
         utilization_rate |-> chromosome.utilization_score,
         movement_reduction |-> chromosome.green_score,
         fatigue_prevention |-> chromosome.fatigue_score],
     ai_metadata |->
        [algorithm |-> "Genetic Algorithm",
         generations_used |-> n_generations,
         population_size |-> n_population,
         final_conflicts |-> chromosome.conflict_count]]

-----------------------------------------------------------------------------
(* GeneticScheduler: Gene objects *)

\* Gene objects live in gene_objects and chromosomes hold their positions,
\* so that two chromosomes can share a Gene as the children of a crossover
\* share the genes of their parents.

\* chromosome.genes by value
GeneValues(store, chromosome) ==
    [i \in DOMAIN chromosome.genes |-> store[chromosome.genes[i]]]

\* the positions new objects get when `n` of them are added to store
NewIds(store, n) == [i \in 1..n |-> Len(store) + i]

\* copy.deepcopy(chromosome): the copy, given that its genes are appended
\* to store
DeepCopy(store, chromosome) ==
    [chromosome EXCEPT !.genes = NewIds(store, Len(chromosome.genes))]

RECURSIVE AllGenes(_)
AllGenes(chromosomes) ==
    IF chromosomes = << >> THEN << >>
    ELSE Head(chromosomes).genes \o AllGenes(Tail(chromosomes))

RECURSIVE FirstUses(_, _)
FirstUses(ids, seen) ==
    IF ids = << >> THEN << >>
    ELSE IF Head(ids) \in seen THEN FirstUses(Tail(ids), seen)
    ELSE <<Head(ids)>> \o FirstUses(Tail(ids), seen \cup {Head(ids)})

\* the objects some chromosome of the list refers to, in order of first use
Referenced(chromosomes) == FirstUses(AllGenes(chromosomes), {})

\* garbage collection: the objects no chromosome refers to are dropped and
\* the live ones take the positions of their first use
Collected(store, live) == [k \in DOMAIN live |-> store[live[k]]]

Relocated(chromosomes, live) ==
    [c \in DOMAIN chromosomes |->
        [chromosomes[c] EXCEPT !.genes =
            [i \in DOMAIN chromosomes[c].genes |->
                CHOOSE k \in DOMAIN live : live[k] = chromosomes[c].genes[i]]]]

-----------------------------------------------------------------------------
(* GeneticScheduler: mutation, selection, crossover *)

\* the days and time slots random.randint draws in the runs of the model
DrawnDays == {1}
DrawnSlots == {1}

\* what _mutate_chromosome does to one gene: nothing (random.random() is not
\* below the rate), a new day, a new time slot, or the room_id branch
Mutations ==
    {[field |-> "none", value |-> 0], [field |-> "room_id", value |-> 0]}
    \cup {[field |-> "day", value |-> d] : d \in DrawnDays}
    \cup {[field |-> "time_slot", value |-> t] : t \in DrawnSlots}

MutateGene(gene, mutation) ==
    IF mutation.field = "day" THEN [gene EXCEPT !.day = mutation.value]
    ELSE IF mutation.field = "time_slot" THEN [gene EXCEPT !.time_slot = mutation.value]
    ELSE gene

\* the values _mutate_chromosome can leave a gene with
MutatedGenes(gene) == {MutateGene(gene, mutation) : mutation \in Mutations}

\* the values _mutate_chromosome can leave the genes of a chromosome with
MutationPlans(store, chromosome) ==
    LET genes == GeneValues(store, chromosome)
    IN  {plan \in [DOMAIN genes -> UNION {MutatedGenes(genes[i]) : i \in DOMAIN genes}] :
            \A i \in DOMAIN genes : plan[i] \in MutatedGenes(genes[i])}

\* _mutate_chromosome: the Gene objects of the chromosome change in place
_mutate_chromosome(store, chromosome, plan) ==
    [id \in DOMAIN store |->
        IF \E i \in DOMAIN chromosome.genes : chromosome.genes[i] = id
        THEN plan[CHOOSE i \in DOMAIN chromosome.genes : chromosome.genes[i] = id]
        ELSE store[id]]

\* sorted(key=fitness_score, reverse=True): descending and stable
SortByFitness(chromosomes) ==
    LET rank(i) == 1 + Cardinality({j \in DOMAIN chromosomes :
                        \/ chromosomes[j].fitness_score > chromosomes[i].fitness_score
                        \/ /\ chromosomes[j].fitness_score = chromosomes[i].fitness_score
                           /\ j < i})
    IN  [k \in DOMAIN chromosomes |->
            chromosomes[CHOOSE i \in DOMAIN chromosomes : rank(i) = k]]

\* max(chromosomes, key=fitness_score): the first of the fittest
FirstFittest(chromosomes) ==
    CHOOSE i \in DOMAIN chromosomes :
        /\ \A j \in DOMAIN chromosomes :
              chromosomes[j].fitness_score <= chromosomes[i].fitness_score
        /\ \A j \in 1..(i - 1) :
              chromosomes[j].fitness_score < chromosomes[i].fitness_score

\* _tournament_selection: the chromosomes that are the fittest of some
\* sample of min(tournament_size, len(population)) chromosomes
_tournament_selection(chromosomes) ==
    LET tournament_size == 5
        k == Min(tournament_size, Len(chromosomes))
    IN  {i \in DOMAIN chromosomes :
            Cardinality({j \in DOMAIN chromosomes \ {i} :
                chromosomes[j].fitness_score <= chromosomes[i].fitness_score}) >= k - 1}

\* _crossover past its first test: the children hold the parents' Gene objects
_crossover(parent1, parent2, crossover_point) ==
    LET head(s) == SubSeq(s, 1, crossover_point)
        tail(s) == SubSeq(s, crossover_point + 1, Len(s))
    IN  << Chromosome(head(parent1.genes) \o tail(parent2.genes)),
           Chromosome(head(parent2.genes) \o tail(parent1.genes)) >>

-----------------------------------------------------------------------------
(* The seeds the genetic optimizer is run on *)

\* a class as the greedy scheduler records it
SeedClass(subject_id, faculty_id, group_id, room_id, day, period) ==
    ClassInfo([subject_id |-> subject_id, subject_name |-> subject_id,
               faculty_id |-> faculty_id, student_group_id |-> group_id,
               duration |-> 1],
              TimeSlot(day, period), [room_id |-> room_id])

Mathematics_G1 == SeedClass("mathematics", "F1", "G1", "R1", 0, 0)
Physics_G1 == SeedClass("physics", "F1", "G1", "R2", 0, 1)
Art_G2 == SeedClass("art", "F2", "G2", "R2", 0, 0)
Art_G2_Tuesday == SeedClass("art", "F2", "G2", "R2", 1, 0)
\* the class of a subject whose subject_id is null in the catalog
Unnamed_G1 == SeedClass(None, "F1", "G1", "R1", 0, 0)

\* scheduled_classes of the greedy runs: no two classes share a faculty, a
\* room or a group in one cell
SeedClassLists ==
    { << >>,
      << Mathematics_G1 >>,
      << Mathematics_G1, Physics_G1 >>,
      << Mathematics_G1, Art_G2 >>,
      << Unnamed_G1, Art_G2_Tuesday >> }

\* schedules as generate_initial_schedule returns them
SeedSchedules == {_generate_schedule_output(classes) : classes \in SeedClassLists}

\* a week of twelve classes in one room: each of two faculties teaches six
\* periods, one on Monday and one on Tuesday, none of a heavy subject
FullRoomClasses ==
    [i \in 1..12 |->
        IF i <= 6 THEN SeedClass("art", "F1", "G1", "R1", 0, i - 1)
        ELSE SeedClass("music", "F2", "G1", "R1", 1, i - 7)]

\* the schedules of the runs in which no gene is mutated
UnmutatedSeedSchedules ==
    SeedSchedules \cup {_generate_schedule_output(FullRoomClasses)}

-----------------------------------------------------------------------------
(* GeneticScheduler: state and operations *)

\* the values optimization_level takes; "med" is no level the code names
Levels == {"high", "medium", "low", "med"}

\* the rate is in percent
_set_optimization_parameters(level) ==
    IF level = "high"
    THEN [generations |-> 150, population_size |-> 100, mutation_rate |-> 5]
    ELSE IF level = "medium"
    THEN [generations |-> 100, population_size |-> 50, mutation_rate |-> 10]
    ELSE [generations |-> 50, population_size |-> 30, mutation_rate |-> 20]

\* int(self.population_size * self.elite_percentage), elite_percentage = 0.2
elite_count(n) == (n * 2) \div 10

\* __init__, and a schedule about to be handed to optimize_schedule
GeneticInit ==
    /\ population_size = 50
    /\ generations = 100
    /\ mutation_rate = 10
    /\ initial_schedule \in SeedSchedules
    /\ optimization_level \in Levels
    /\ population = << >>
    /\ new_population = << >>
    /\ gene_objects = << >>
    /\ best_solution = None
    /\ best_fitness = NegInf
    /\ current_best = NegInf
    /\ generation = 0
    /\ evaluated_max = NegInf
    /\ optimized = None
    /\ opc = "idle"
    /\ oerror = None

\* the optimizer is not run
GeneticIdle ==
    /\ population_size = 50
    /\ generations = 100
    /\ mutation_rate = 10
    /\ initial_schedule = None
    /\ optimization_level = None
    /\ population = << >>
    /\ new_population = << >>
    /\ gene_objects = << >>
    /\ best_solution = None
    /\ best_fitness = NegInf
    /\ current_best = NegInf
    /\ generation = 0
    /\ evaluated_max = NegInf
    /\ optimized = None
    /\ opc = "off"
    /\ oerror = None

\* the loop of _initialize_population ending one chromosome early
PopulationCompleteOneShort(chromosomes, size) == Len(chromosomes) >= size - 1

\* _initialize_population returns: the base chromosome and the
\* population_size - 1 chromosomes of the loop are in the list
PopulationComplete(chromosomes, size) == Len(chromosomes) = size

\* optimize_schedule up to the base chromosome of _initialize_population,
\* with the population and the number of generations capped
StartOptimization(max_population, max_generations) ==
    /\ opc = "idle"
    /\ LET parameters == _set_optimization_parameters(optimization_level)
       IN  /\ generations' = Min(parameters.generations, max_generations)
           /\ population_size' = Min(parameters.population_size, max_population)
           /\ mutation_rate' = parameters.mutation_rate
    /\ LET base == _schedule_to_chromosome(initial_schedule)
       IN  /\ gene_objects' = base
           /\ population' = <<Chromosome(NewIds(<< >>, Len(base)))>>
    /\ opc' = IF PopulationComplete(population', population_size')
              THEN "evaluate" ELSE "initialize"
    /\ UNCHANGED <<optimization_level,
                   initial_schedule, new_population, best_solution, best_fitness,
                   current_best, generation, evaluated_max, optimized, oerror>>
    /\ UNCHANGED NotGenetic

\* the population and the number of generations are capped by the bounds
OptimizeSchedule == StartOptimization(MaxPopulation, MaxGenerations)

\* the population has the size the level sets (at most 100); only the number
\* of generations is capped
OptimizeScheduleFullSize == StartOptimization(100, MaxGenerations)

\* _initialize_population: a mutated deep copy of the base chromosome (rate 0.3)
AddMutatedCopy ==
    /\ opc = "initialize"
    /\ Len(population) < population_size
    /\ LET base_chromosome == population[1]
           new_chromosome == DeepCopy(gene_objects, base_chromosome)
           store == gene_objects \o GeneValues(gene_objects, base_chromosome)
       IN  \E plan \in MutationPlans(store, new_chromosome) :
              /\ gene_objects' = _mutate_chromosome(store, new_chromosome, plan)
              /\ population' = Append(population, new_chromosome)
    /\ opc' = IF PopulationComplete(population', population_size)
              THEN "evaluate" ELSE "initialize"
    /\ UNCHANGED <<optimization_level,
                   initial_schedule, population_size, generations, mutation_rate,
                   new_population, best_solution, best_fitness, current_best,
                   generation, evaluated_max, optimized, oerror>>
    /\ UNCHANGED NotGenetic

\* _initialize_population: _generate_random_chromosome on a template without
\* subjects makes a chromosome of len(subjects) * 3 = 0 genes
AddRandomChromosome ==
    /\ opc = "initialize"
    /\ Len(population) < population_size
    /\ Get(initial_schedule, "subjects", {}) = {}
    /\ population' = Append(population, Chromosome(<< >>))
    /\ opc' = IF PopulationComplete(population', population_size)
              THEN "evaluate" ELSE "initialize"
    /\ UNCHANGED <<optimization_level,
                   initial_schedule, population_size, generations, mutation_rate,
                   new_population, gene_objects, best_solution, best_fitness,
                   current_best, generation, evaluated_max, optimized, oerror>>
    /\ UNCHANGED NotGenetic

\* _initialize_population: _generate_random_chromosome calls .get on an
\* element of the template's subjects, which are strings
RandomChromosomeRaises ==
    /\ opc = "initialize"
    /\ Len(population) < population_size
    /\ Get(initial_schedule, "subjects", {}) # {}
    /\ opc' = "raised"
    /\ oerror' = "AttributeError"
    /\ UNCHANGED <<optimization_level,
                   initial_schedule, population_size, generations, mutation_rate,
                   population, new_population, gene_objects, best_solution,
                   best_fitness, current_best, generation, evaluated_max, optimized>>
    /\ UNCHANGED NotGenetic

\* the test of the loop body that replaces the best solution seen, always true
ImprovesBestAlways(fitness_score, best) == TRUE

\* the test of the loop body that replaces the best solution seen
ImprovesBest(fitness_score, best) == fitness_score > best

\* _evaluate_population_fitness: the score fields of one chromosome
Evaluated(store, chromosome) ==
    LET fitness_result == _calculate_fitness(GeneValues(store, chromosome))
    IN  [chromosome EXCEPT !.fitness_score = fitness_result.total_score,
                           !.conflict_count = fitness_result.conflicts,
                           !.utilization_score = fitness_result.utilization,
                           !.green_score = fitness_result.green_score,
                           !.fatigue_score = fitness_result.fatigue_score]

\* _calculate_fitness raises: _evaluate_fatigue_prevention calls
\* subject_id.lower() on every gene of a (group, day) list of more than one
\* gene, and None has no lower()
FitnessRaises(genes) ==
    \E i, j \in DOMAIN genes :
        /\ i # j
        /\ genes[i].student_group_id = genes[j].student_group_id
        /\ genes[i].day = genes[j].day
        /\ genes[i].subject_id = None

\* the chromosomes of the population whose task raises
FailingTasks ==
    {i \in DOMAIN population : FitnessRaises(GeneValues(gene_objects, population[i]))}

\* _evaluate_population_fitness: task.result() re-raises the exception of
\* the first failing task, after the scores of the chromosomes before it
\* are stored; nothing in optimize_schedule catches it
EvaluationRaises ==
    /\ opc = "evaluate"
    /\ FailingTasks # {}
    /\ LET first == CHOOSE i \in FailingTasks : \A j \in FailingTasks : i <= j
       IN  population' = [i \in DOMAIN population |->
                             IF i < first THEN Evaluated(gene_objects, population[i])
                             ELSE population[i]]
    /\ opc' = "raised"
    /\ oerror' = "AttributeError"
    /\ UNCHANGED <<optimization_level,
                   initial_schedule, population_size, generations, mutation_rate,
                   new_population, gene_objects, best_solution, best_fitness,
                   current_best, generation, evaluated_max, optimized>>
    /\ UNCHANGED NotGenetic

\* one pass of the loop of optimize_schedule up to the elitism of
\* _create_next_generation
EvaluateGeneration ==
    /\ opc = "evaluate"
    /\ FailingTasks = {}
    /\ LET evaluated == [i \in DOMAIN population |-> Evaluated(gene_objects, population[i])]
           best == evaluated[FirstFittest(evaluated)]
           sorted == SortByFitness(evaluated)
       IN  /\ current_best' = best.fitness_score
           /\ evaluated_max' = Max(evaluated_max, best.fitness_score)
           /\ IF ImprovesBest(best.fitness_score, best_fitness)
              THEN /\ best_fitness' = best.fitness_score
                   /\ best_solution' = [best EXCEPT !.genes = GeneValues(gene_objects, best)]
              ELSE UNCHANGED <<best_fitness, best_solution>>
           /\ population' = sorted
           /\ new_population' = SubSeq(sorted, 1, elite_count(population_size))
    /\ opc' = "breed"
    /\ UNCHANGED <<optimization_level,
                   initial_schedule, population_size, generations, mutation_rate,
                   gene_objects, generation, optimized, oerror>>
    /\ UNCHANGED NotGenetic

\* new_population.extend([child1, child2]) with the Gene objects as the
\* mutations left them; when new_population is full _create_next_generation
\* returns new_population[:population_size] and the pass of the loop of
\* optimize_schedule ends
Bred(children, store) ==
    LET grown == new_population \o children
        full == Len(grown) >= population_size
        trimmed == SubSeq(grown, 1, population_size)
        live == Referenced(IF full THEN trimmed ELSE population \o grown)
    IN  /\ gene_objects' = Collected(store, live)
        /\ population' = Relocated(IF full THEN trimmed ELSE population, live)
        /\ new_population' = IF full THEN << >> ELSE Relocated(grown, live)
        /\ generation' = IF full THEN generation + 1 ELSE generation
        /\ opc' = IF ~full THEN "breed"
                  ELSE IF best_fitness >= 99 * FitnessUnit \/ generation + 1 >= generations
                       THEN "convert"
                  ELSE "evaluate"
        /\ UNCHANGED <<optimization_level,
                       initial_schedule, population_size, generations, mutation_rate,
                       best_solution, best_fitness, current_best, evaluated_max,
                       optimized, oerror>>
        /\ UNCHANGED NotGenetic

\* the children after _mutate_chromosome(child1) and _mutate_chromosome(child2)
BredAndMutated(children, store) ==
    \E plan1 \in MutationPlans(store, children[1]) :
        LET store1 == _mutate_chromosome(store, children[1], plan1)
        IN  \E plan2 \in MutationPlans(store1, children[2]) :
               Bred(children, _mutate_chromosome(store1, children[2], plan2))

\* one pass of the loop of _create_next_generation with a crossover
BreedByCrossover ==
    /\ opc = "breed"
    /\ \E p1, p2 \in _tournament_selection(population) :
          LET parent1 == population[p1]
              parent2 == population[p2]
              min_length == Min(Len(parent1.genes), Len(parent2.genes))
          IN  /\ parent1.genes # << >>
              /\ parent2.genes # << >>
              /\ \E crossover_point \in 1..(min_length - 1) :
                    BredAndMutated(_crossover(parent1, parent2, crossover_point),
                                   gene_objects)

\* one pass of the loop of _create_next_generation with deep copies of the
\* parents: no crossover is drawn, or _crossover finds a parent without genes
BreedByCopy ==
    /\ opc = "breed"
    /\ \E p1, p2 \in _tournament_selection(population) :
          LET parent1 == population[p1]
              parent2 == population[p2]
              child1 == DeepCopy(gene_objects, parent1)
              store1 == gene_objects \o GeneValues(gene_objects, parent1)
              child2 == DeepCopy(store1, parent2)
              store2 == store1 \o GeneValues(store1, parent2)
          IN  BredAndMutated(<<child1, child2>>, store2)

\* _crossover: random.randint(1, min_length - 1) with min_length = 1
CrossoverRaises ==
    /\ opc = "breed"
    /\ \E p1, p2 \in _tournament_selection(population) :
          /\ population[p1].genes # << >>
          /\ population[p2].genes # << >>
          /\ Min(Len(population[p1].genes), Len(population[p2].genes)) = 1
    /\ opc' = "raised"
    /\ oerror' = "ValueError"
    /\ UNCHANGED <<optimization_level,
                   initial_schedule, population_size, generations, mutation_rate,
                   population, new_population, gene_objects, best_solution,
                   best_fitness, current_best, generation, evaluated_max, optimized>>
    /\ UNCHANGED NotGenetic

\* return await self._chromosome_to_schedule(best_solution)
ChromosomeToSchedule ==
    /\ opc = "convert"
    /\ optimized' = _chromosome_to_schedule(best_solution, generations, population_size)
    /\ opc' = "returned"
    /\ UNCHANGED <<optimization_level,
                   initial_schedule, population_size, generations, mutation_rate,
                   population, new_population, gene_objects, best_solution,
                   best_fitness, current_best, generation, evaluated_max, oerror>>
    /\ UNCHANGED NotGenetic

\* _initialize_population: a deep copy of the base chromosome that
\* _mutate_chromosome leaves as it is (no random.random() is below the rate)
AddCopyLeftAlone ==
    /\ opc = "initialize"
    /\ Len(population) < population_size
    /\ LET base_chromosome == population[1]
       IN  /\ gene_objects' = gene_objects \o GeneValues(gene_objects, base_chromosome)
           /\ population' = Append(population, DeepCopy(gene_objects, base_chromosome))
    /\ opc' = IF PopulationComplete(population', population_size)
              THEN "evaluate" ELSE "initialize"
    /\ UNCHANGED <<optimization_level,
                   initial_schedule, population_size, generations, mutation_rate,
                   new_population, best_solution, best_fitness, current_best,
                   generation, evaluated_max, optimized, oerror>>
    /\ UNCHANGED NotGenetic

\* one pass of the loop of _create_next_generation with deep copies of the
\* parents that _mutate_chromosome leaves as they are
BreedByCopyLeftAlone ==
    /\ opc = "breed"
    /\ \E p1, p2 \in _tournament_selection(population) :
          LET parent1 == population[p1]
              parent2 == population[p2]
              child1 == DeepCopy(gene_objects, parent1)
              store1 == gene_objects \o GeneValues(gene_objects, parent1)
              child2 == DeepCopy(store1, parent2)
              store2 == store1 \o GeneValues(store1, parent2)
          IN  Bred(<<child1, child2>>, store2)

GeneticNext ==
    \/ OptimizeSchedule
    \/ AddMutatedCopy
    \/ AddRandomChromosome
    \/ RandomChromosomeRaises
    \/ EvaluateGeneration
    \/ EvaluationRaises
    \/ BreedByCrossover
    \/ BreedByCopy
    \/ CrossoverRaises
    \/ ChromosomeToSchedule

-----------------------------------------------------------------------------
(* NEPComplianceChecker (nep_compliance.py) *)

\* Percentages are exact fractions [num, den] with den > 0; the comparisons
\* of the code with whole-number limits give the same answer on the floats
\* for every catalog of fewer than 400 credits. Messages are records of the
\* kind of the message and the whole numbers it shows; the one-decimal text of
\* a percentage is left out of them.
Ratio(num, den) == [num |-> num, den |-> den]

\* scores of _calculate_overall_score are kept in hundredths, the unit of
\* round(final_score, 2)
ScoreScale == 100

\* self.nep_requirements, in the order of the dict
nep_requirements ==
    << [category |-> "major", min_percentage |-> 40, max_percentage |-> 50,
        min_credits |-> 64],
       [category |-> "minor", min_percentage |-> 20, max_percentage |-> 30,
        min_credits |-> 32],
       [category |-> "skill", min_percentage |-> 10, max_percentage |-> 20,
        min_credits |-> 16],
       [category |-> "ability_enhancement", min_percentage |-> 8, max_percentage |-> 15,
        min_credits |-> 12],
       [category |-> "value_added", min_percentage |-> 5, max_percentage |-> 15,
        min_credits |-> 8] >>

\* self.teacher_education_requirements, in the order of the dict
teacher_education_requirements ==
    << [category |-> "pedagogy", min_percentage |-> 30],
       [category |-> "subject_knowledge", min_percentage |-> 40],
       [category |-> "practicum", min_percentage |-> 20],
       [category |-> "electives", min_percentage |-> 10] >>

\* str.title() on the category names
Title(s) ==
    CASE s = "major" -> "Major"
      [] s = "minor" -> "Minor"
      [] s = "skill" -> "Skill"
      [] s = "ability_enhancement" -> "Ability_Enhancement"
      [] s = "value_added" -> "Value_Added"
      [] s = "pedagogy" -> "Pedagogy"
      [] s = "subject_knowledge" -> "Subject_Knowledge"
      [] s = "practicum" -> "Practicum"
      [] s = "electives" -> "Electives"
      [] OTHER -> s

\* "word in subject_type" for the subject types of the catalogs
Contains(subject_type, word) ==
    \/ subject_type = word
    \/ subject_type = "teaching practicum" /\ word \in {"teaching", "practicum"}

RECURSIVE Flatten(_)
Flatten(seqs) == IF seqs = << >> THEN << >> ELSE Head(seqs) \o Flatten(Tail(seqs))

_analyze_course_distribution(schedule) ==
    LET subjects == Get(schedule, "subjects", << >>)
        categories == {nep_requirements[i].category : i \in DOMAIN nep_requirements}
        counted(category) ==
            SelectSeq(subjects, LAMBDA s : Lower(Get(s, "type", "")) = category)
        credits(category) ==
            SumSeq([i \in DOMAIN counted(category) |->
                      Get(counted(category)[i], "credits", 3)])
        total_credits ==
            SumSeq([i \in DOMAIN nep_requirements |-> credits(nep_requirements[i].category)])
    IN  [category \in categories |->
            [courses |-> Len(counted(category)),
             credits |-> credits(category),
             percentage |-> IF total_credits > 0
                            THEN Ratio(credits(category) * 100, total_credits)
                            ELSE Ratio(0, 1)]]

_calculate_multidisciplinary_score(schedule) ==
    LET subjects == Get(schedule, "subjects", << >>)
        disciplines == {Get(subjects[i], "department", "general") : i \in DOMAIN subjects}
    IN  IF subjects = << >> THEN 0
        ELSE IF Cardinality(disciplines) >= 3 THEN 100
        ELSE IF Cardinality(disciplines) = 2 THEN 70
        ELSE IF Cardinality(disciplines) = 1 THEN 40
        ELSE 0

_check_theory_practical_balance(schedule) ==
    LET subjects == Get(schedule, "subjects", << >>)
        total_theory_hours ==
            SumSeq([i \in DOMAIN subjects |-> Get(subjects[i], "theory_hours", 0)])
        total_practical_hours ==
            SumSeq([i \in DOMAIN subjects |-> Get(subjects[i], "practical_hours", 0)])
        total_internship_hours ==
            SumSeq([i \in DOMAIN subjects |->
                      IF Contains(Lower(Get(subjects[i], "type", "")), "internship")
                      THEN Get(subjects[i], "hours", 0) ELSE 0])
        total_hours == total_theory_hours + total_practical_hours + total_internship_hours
    IN  IF total_hours = 0
        THEN [theory_percentage |-> Ratio(0, 1),
              practical_percentage |-> Ratio(0, 1),
              internship_percentage |-> Ratio(0, 1)]
        ELSE [theory_percentage |-> Ratio(total_theory_hours * 100, total_hours),
              practical_percentage |-> Ratio(total_practical_hours * 100, total_hours),
              internship_percentage |-> Ratio(total_internship_hours * 100, total_hours),
              theory_hours |-> total_theory_hours,
              practical_hours |-> total_practical_hours,
              internship_hours |-> total_internship_hours,
              total_hours |-> total_hours]

\* is_compliant without the test of the credits
IsCompliantByShare(percentage, credits, requirement) ==
    /\ percentage.num >= requirement.min_percentage * percentage.den
    /\ percentage.num <= requirement.max_percentage * percentage.den

\* is_compliant of _check_fyup_compliance
IsCompliant(percentage, credits, requirement) ==
    /\ percentage.num >= requirement.min_percentage * percentage.den
    /\ percentage.num <= requirement.max_percentage * percentage.den
    /\ credits >= requirement.min_credits

\* one pass of the loop of _check_fyup_compliance: the entry of
\* category_compliance and the messages appended
CategoryCheck(requirement, category_data) ==
    LET category == requirement.category
        percentage == category_data.percentage
        credits == category_data.credits
        is_compliant == IsCompliant(percentage, credits, requirement)
        below == percentage.num < requirement.min_percentage * percentage.den
        above == percentage.num > requirement.max_percentage * percentage.den
        short == credits < requirement.min_credits
    IN  [entry |->
            [compliant |-> is_compliant,
             current_percentage |-> percentage,
             required_range |-> <<requirement.min_percentage, requirement.max_percentage>>,
             current_credits |-> credits,
             minimum_credits |-> requirement.min_credits],
         violations |->
            IF is_compliant THEN << >>
            ELSE (IF below THEN <<[kind |-> "below minimum requirement",
                                   category |-> Title(category),
                                   limit |-> requirement.min_percentage]>> ELSE << >>)
              \o (IF above THEN <<[kind |-> "exceed maximum limit",
                                   category |-> Title(category),
                                   limit |-> requirement.max_percentage]>> ELSE << >>)
              \o (IF short THEN <<[kind |-> "credits are insufficient",
                                   category |-> Title(category),
                                   credits |-> credits,
                                   limit |-> requirement.min_credits]>> ELSE << >>),
         recommendations |->
            IF is_compliant THEN << >>
            ELSE (IF below THEN <<[kind |-> "Increase allocation",
                                   category |-> category]>> ELSE << >>)
              \o (IF above THEN <<[kind |-> "Reduce allocation",
                                   category |-> category]>> ELSE << >>)
              \o (IF short THEN <<[kind |-> "Add more credits",
                                   category |-> category,
                                   credits |-> requirement.min_credits - credits]>>
                  ELSE << >>)]

_check_fyup_compliance(schedule, report) ==
    LET course_distribution == _analyze_course_distribution(schedule)
        checks == [i \in DOMAIN nep_requirements |->
                      CategoryCheck(nep_requirements[i],
                                    course_distribution[nep_requirements[i].category])]
        index(category) == CHOOSE i \in DOMAIN nep_requirements :
                              nep_requirements[i].category = category
        multidisciplinary_score == _calculate_multidisciplinary_score(schedule)
        theory_practical_ratio == _check_theory_practical_balance(schedule)
        practical == theory_practical_ratio.practical_percentage
    IN  [report EXCEPT
           !.overall_compliant = @ /\ \A i \in DOMAIN checks : checks[i].entry.compliant,
           !.category_compliance =
               [category \in DOMAIN course_distribution |-> checks[index(category)].entry],
           !.violations =
               @ \o Flatten([i \in DOMAIN checks |-> checks[i].violations])
                 \o (IF multidisciplinary_score < 70
                     THEN <<[kind |-> "Multidisciplinary exposure is low"]>> ELSE << >>),
           !.recommendations =
               @ \o Flatten([i \in DOMAIN checks |-> checks[i].recommendations])
                 \o (IF multidisciplinary_score < 70
                     THEN <<[kind |-> "Increase interdisciplinary course offerings"]>>
                     ELSE << >>)
                 \o (IF practical.num < 20 * practical.den
                     THEN <<[kind |-> "Increase practical/lab components"]>> ELSE << >>),
           !.multidisciplinary_score = multidisciplinary_score,
           !.credit_distribution = theory_practical_ratio]

\* the component a subject is counted under
TeacherComponent(subject) ==
    LET subject_type == Lower(Get(subject, "type", ""))
    IN  IF Contains(subject_type, "pedagogy") \/ Contains(subject_type, "teaching")
        THEN "pedagogy"
        ELSE IF Contains(subject_type, "practical") \/ Contains(subject_type, "practicum")
        THEN "practicum"
        ELSE IF Contains(subject_type, "elective") THEN "electives"
        ELSE "subject_knowledge"

_analyze_teacher_education_distribution(schedule) ==
    LET subjects == Get(schedule, "subjects", << >>)
        total_courses == Len(subjects)
        count(component) ==
            Len(SelectSeq(subjects, LAMBDA s : TeacherComponent(s) = component))
        practicum_hours ==
            SumSeq([i \in DOMAIN subjects |->
                      IF TeacherComponent(subjects[i]) = "practicum"
                      THEN Get(subjects[i], "practical_hours", 20) ELSE 0])
    IN  [percentage |->
            [component \in {"pedagogy", "subject_knowledge", "practicum", "electives"} |->
                IF total_courses = 0 THEN Ratio(0, 1)
                ELSE Ratio(count(component) * 100, total_courses)],
         practicum_hours |-> IF total_courses = 0 THEN 0 ELSE practicum_hours]

_check_teacher_education_compliance(schedule, report) ==
    LET course_distribution == _analyze_teacher_education_distribution(schedule)
        current(i) == course_distribution.percentage[teacher_education_requirements[i].category]
        compliant(i) ==
            current(i).num >= teacher_education_requirements[i].min_percentage * current(i).den
        index(category) == CHOOSE i \in DOMAIN teacher_education_requirements :
                              teacher_education_requirements[i].category = category
        practicum_hours == course_distribution.practicum_hours
    IN  [report EXCEPT
           !.overall_compliant =
               @ /\ \A i \in DOMAIN teacher_education_requirements : compliant(i),
           !.category_compliance =
               [category \in DOMAIN course_distribution.percentage |->
                   [compliant |-> compliant(index(category)),
                    current_percentage |-> current(index(category)),
                    minimum_percentage |->
                        teacher_education_requirements[index(category)].min_percentage]],
           !.violations =
               @ \o Flatten([i \in DOMAIN teacher_education_requirements |->
                               IF compliant(i) THEN << >>
                               ELSE <<[kind |-> "component is below minimum",
                                       category |->
                                          Title(teacher_education_requirements[i].category),
                                       limit |->
                                          teacher_education_requirements[i].min_percentage]>>])
                 \o (IF practicum_hours < 100
                     THEN <<[kind |-> "Teaching practice hours insufficient",
                             hours |-> practicum_hours, limit |-> 100]>> ELSE << >>),
           !.recommendations =
               @ \o Flatten([i \in DOMAIN teacher_education_requirements |->
                               IF compliant(i) THEN << >>
                               ELSE <<[kind |-> "Increase courses",
                                       category |->
                                          teacher_education_requirements[i].category]>>])
                 \o (IF practicum_hours < 100
                     THEN <<[kind |-> "Add more hours of teaching practice",
                             hours |-> 100 - practicum_hours]>> ELSE << >>)]

\* final_score without min(100, max(0, ...))
OverallScoreUnclamped(report) ==
    LET compliant_categories ==
            Cardinality({category \in DOMAIN report.category_compliance :
                            report.category_compliance[category].compliant})
        total_categories == Cardinality(DOMAIN report.category_compliance)
    IN  IF total_categories = 0 THEN 0
        ELSE (compliant_categories * 100 * ScoreScale) \div total_categories
               + (report.multidisciplinary_score * ScoreScale) \div 10
               - Len(report.violations) * 5 * ScoreScale

_calculate_overall_score(report) ==
    LET compliant_categories ==
            Cardinality({category \in DOMAIN report.category_compliance :
                            report.category_compliance[category].compliant})
        total_categories == Cardinality(DOMAIN report.category_compliance)
        base_score == (compliant_categories * 100 * ScoreScale) \div total_categories
        multidisciplinary_bonus == (report.multidisciplinary_score * ScoreScale) \div 10
        violation_penalty == Len(report.violations) * 5 * ScoreScale
    IN  IF total_categories = 0 THEN 0
        ELSE Min(100 * ScoreScale,
                 Max(0, base_score + multidisciplinary_bonus - violation_penalty))

check_compliance(schedule) ==
    LET compliance_report0 ==
            [overall_compliant |-> TRUE,
             compliance_score |-> 0,
             category_compliance |-> << >>,
             violations |-> << >>,
             recommendations |-> << >>,
             credit_distribution |-> << >>,
             multidisciplinary_score |-> 0]
        program_type == Get(schedule, "program_type", "FYUP")
        checked ==
            IF program_type \in {"FYUP", "ITEP"}
            THEN _check_fyup_compliance(schedule, compliance_report0)
            ELSE IF program_type \in {"B.Ed.", "M.Ed."}
            THEN _check_teacher_education_compliance(schedule, compliance_report0)
            ELSE compliance_report0
    IN  [checked EXCEPT !.compliance_score = _calculate_overall_score(checked)]

-----------------------------------------------------------------------------
(* The schedules the compliance checker is run on *)

Course(type, credits) ==
    [type |-> type, credits |-> credits, theory_hours |-> 3, practical_hours |-> 1]

\* the courses of one category: none, up to MaxCourses courses of half the
\* minimum credits each, one course of the minimum, one of twice the minimum
CategoryLoads(requirement) ==
    LET half == requirement.min_credits \div 2
    IN  {<< >>, <<Course(requirement.category, requirement.min_credits)>>,
         <<Course(Title(requirement.category), 2 * requirement.min_credits)>>}
        \cup {[i \in 1..n |-> Course(requirement.category, half)] : n \in 1..MaxCourses}

\* subjects of the five categories, category by category
RECURSIVE CategorySubjects(_)
CategorySubjects(i) ==
    IF i > Len(nep_requirements) THEN {<< >>}
    ELSE {load \o rest : load \in CategoryLoads(nep_requirements[i]),
                         rest \in CategorySubjects(i + 1)}

\* how the subjects name their department: not at all, the first one only,
\* or each one its own
DepartmentPatterns == {"none", "first", "each"}

WithDepartments(subjects, pattern) ==
    [i \in DOMAIN subjects |->
        IF pattern = "each" \/ (pattern = "first" /\ i = 1)
        THEN [k \in (DOMAIN subjects[i]) \cup {"department"} |->
                 IF k = "department" THEN subjects[i].type ELSE subjects[i][k]]
        ELSE subjects[i]]

\* courses of a teacher education programme
TeacherCourses ==
    {Course("pedagogy", 4), Course("elective", 4), Course("major", 4),
     [type |-> "practicum", credits |-> 4],
     [type |-> "teaching practicum", credits |-> 4, practical_hours |-> 120]}

\* ten courses that meet the four minimum shares exactly, with two practicum
\* courses of the default 20 hours each
BalancedTeacherCourses ==
    [i \in 1..10 |->
        IF i <= 3 THEN Course("pedagogy", 4)
        ELSE IF i <= 7 THEN Course("major", 4)
        ELSE IF i <= 9 THEN [type |-> "practicum", credits |-> 4]
        ELSE Course("elective", 4)]

\* the schedules main.py hands to the checker: the weekly schedule of the
\* optimizer with the conflicts of the resolver, with or without subjects
PipelineSchedules ==
    {[weekly_schedule |-> seed.weekly_schedule, conflicts |-> << >>] :
        seed \in SeedSchedules}
    \cup {[weekly_schedule |-> seed.weekly_schedule, conflicts |-> << >>,
           subjects |-> <<Course("major", 64)>>] : seed \in SeedSchedules}

AuditedSchedules ==
    PipelineSchedules \cup
    {[subjects |-> WithDepartments(subjects, pattern)] :
        subjects \in CategorySubjects(1), pattern \in DepartmentPatterns}
    \cup {[program_type |-> "ITEP", subjects |-> WithDepartments(subjects, pattern)] :
             subjects \in CategorySubjects(1), pattern \in DepartmentPatterns}
    \cup {[program_type |-> program_type, subjects |-> subjects] :
             program_type \in {"FYUP", "B.Ed.", "M.Ed.", "Diploma"},
             subjects \in UNION {[1..n -> TeacherCourses] : n \in 0..MaxCourses}}
    \cup {[program_type |-> program_type, subjects |-> BalancedTeacherCourses] :
             program_type \in {"B.Ed.", "M.Ed."}}

-----------------------------------------------------------------------------
(* NEPComplianceChecker: state and operations *)

ComplianceInit ==
    /\ audited \in AuditedSchedules
    /\ compliance_report = None
    /\ cpc = "ready"

\* check_compliance is not called
ComplianceIdle ==
    /\ audited = None
    /\ compliance_report = None
    /\ cpc = "off"

\* the schedule after the call, with the report stored in it
ScheduleWithReport(schedule) ==
    [k \in (DOMAIN schedule) \cup {"compliance"} |->
        IF k = "compliance" THEN check_compliance(schedule) ELSE schedule[k]]

\* the schedule after the call: check_compliance and its helpers only read
\* it, with schedule.get and subject.get
ScheduleAfterAudit(schedule) == schedule

CheckCompliance ==
    /\ cpc = "ready"
    /\ compliance_report' = check_compliance(audited)
    /\ cpc' = "reported"
    /\ audited' = ScheduleAfterAudit(audited)
    /\ UNCHANGED NotCompliance

-----------------------------------------------------------------------------
(* GeneticScheduler._calculate_fitness called on a chromosome by itself *)

\* the cells of the genes: three time slots of Monday, of which two are
\* consecutive, and one of Tuesday
GeneCells == {TimeSlot(0, 0), TimeSlot(0, 1), TimeSlot(0, 3), TimeSlot(1, 0)}

\* the genes of the chromosomes, with a heavy and a light subject
GenePool ==
    {Gene(subject_id, faculty_id, room_id, student_group_id, cell.day, cell.period) :
        subject_id \in {"mathematics", "art"}, faculty_id \in {"F1", "F2"},
        room_id \in {"R1", "R2"}, student_group_id \in {"G1", "G2"},
        cell \in GeneCells}

Chromosomes == UNION {[1..n -> GenePool] : n \in 0..MaxGenes}

FitnessInit ==
    /\ evaluated_genes \in Chromosomes
    /\ fitness = None
    /\ fpc = "ready"

\* _calculate_fitness is not called by itself
FitnessIdle ==
    /\ evaluated_genes = << >>
    /\ fitness = None
    /\ fpc = "off"

CalculateFitness ==
    /\ fpc = "ready"
    /\ fitness' = _calculate_fitness(evaluated_genes)
    /\ fpc' = "scored"
    /\ UNCHANGED evaluated_genes
    /\ UNCHANGED NotFitness

-----------------------------------------------------------------------------
(* GeneticScheduler._evaluate_population_fitness with its worker threads *)

\* ThreadPoolExecutor(max_workers=4)
max_workers == 4

\* the Gene objects of the populations: two classes of one faculty and one
\* cohort in one cell, and a third class that shares nothing with them
PoolGeneObjects ==
    << Gene("mathematics", "F1", "R1", "G1", 0, 0),
       Gene("physics", "F1", "R2", "G1", 0, 0),
       Gene("art", "F2", "R2", "G2", 0, 1) >>

\* chromosome.genes of the chromosomes: as after a crossover, two
\* chromosomes can hold the same Gene object
PoolGeneLists == { <<1, 2>>, <<1, 3>> }

PoolPopulations ==
    UNION {[1..n -> {Chromosome(genes) : genes \in PoolGeneLists}] : n \in 1..MaxTasks}

\* a future: queued in the executor, running in a worker thread, or done
\* with the dict _calculate_fitness returned
Future(state, result) == [state |-> state, result |-> result]

EvaluationInit ==
    /\ epopulation \in PoolPopulations
    /\ egene_objects = PoolGeneObjects
    /\ fitness_tasks = << >>
    /\ ecollected = 0
    /\ epc = "submit"

\* _evaluate_population_fitness is not called by itself
EvaluationIdle ==
    /\ epopulation = << >>
    /\ egene_objects = << >>
    /\ fitness_tasks = << >>
    /\ ecollected = 0
    /\ epc = "off"

\* the main thread: executor.submit(self._calculate_fitness, chromosome)
SubmitTask ==
    /\ epc = "submit"
    /\ fitness_tasks' = Append(fitness_tasks, Future("queued", None))
    /\ epc' = IF Len(fitness_tasks') = Len(epopulation) THEN "collect" ELSE "submit"
    /\ UNCHANGED <<epopulation, egene_objects, ecollected>>
    /\ UNCHANGED NotEvaluation

\* a worker thread without work takes the oldest queued call
WorkerTakesTask ==
    /\ \E i \in DOMAIN fitness_tasks :
          /\ fitness_tasks[i].state = "queued"
          /\ \A j \in 1..(i - 1) : fitness_tasks[j].state # "queued"
          /\ Cardinality({j \in DOMAIN fitness_tasks :
                             fitness_tasks[j].state = "running"}) < max_workers
          /\ fitness_tasks' = [fitness_tasks EXCEPT ![i].state = "running"]
    /\ UNCHANGED <<epopulation, egene_objects, ecollected, epc>>
    /\ UNCHANGED NotEvaluation

\* a worker thread: _calculate_fitness(chromosome) reads the genes of its
\* chromosome and returns; the lists it sorts are its own
WorkerReturns ==
    /\ \E i \in DOMAIN fitness_tasks :
          /\ fitness_tasks[i].state = "running"
          /\ fitness_tasks' =
                [fitness_tasks EXCEPT ![i] =
                    Future("done",
                           _calculate_fitness(GeneValues(egene_objects, epopulation[i])))]
    /\ UNCHANGED <<epopulation, egene_objects, ecollected, epc>>
    /\ UNCHANGED NotEvaluation

\* the five assignments of the loop, made to the first chromosome
StoreResultInFirst(chromosomes, i, fitness_result) ==
    [chromosomes EXCEPT ![1].fitness_score = fitness_result.total_score,
                        ![1].conflict_count = fitness_result.conflicts,
                        ![1].utilization_score = fitness_result.utilization,
                        ![1].green_score = fitness_result.green_score,
                        ![1].fatigue_score = fitness_result.fatigue_score]

\* population[i].fitness_score = fitness_result['total_score'] and the four
\* assignments after it (i is 1-based here)
StoreResult(chromosomes, i, fitness_result) ==
    [chromosomes EXCEPT ![i].fitness_score = fitness_result.total_score,
                        ![i].conflict_count = fitness_result.conflicts,
                        ![i].utilization_score = fitness_result.utilization,
                        ![i].green_score = fitness_result.green_score,
                        ![i].fatigue_score = fitness_result.fatigue_score]

\* the main thread: task.result() of the next future, which blocks until the
\* future is done, and the assignments to population[i]; after the last one
\* the with block is left
CollectResult ==
    /\ epc = "collect"
    /\ ecollected < Len(fitness_tasks)
    /\ fitness_tasks[ecollected + 1].state = "done"
    /\ epopulation' = StoreResult(epopulation, ecollected + 1,
                                  fitness_tasks[ecollected + 1].result)
    /\ ecollected' = ecollected + 1
    /\ epc' = IF ecollected' = Len(fitness_tasks) THEN "joined" ELSE "collect"
    /\ UNCHANGED <<egene_objects, fitness_tasks>>
    /\ UNCHANGED NotEvaluation

EvaluationNext ==
    \/ SubmitTask
    \/ WorkerTakesTask
    \/ WorkerReturns
    \/ CollectResult

-----------------------------------------------------------------------------
(* Specifications *)

\* the greedy scheduler is not run
GreedyIdle ==
    /\ schedule_matrix = << >>
    /\ faculty_schedule = << >>
    /\ room_schedule = << >>
    /\ group_schedule = << >>
    /\ constraints = << >>
    /\ request_data = << >>
    /\ requirements = << >>
    /\ available_rooms = << >>
    /\ req_idx = 0
    /\ occurrence = 0
    /\ scheduled_classes = << >>
    /\ gpc = "off"
    /\ gerror = None
    /\ returned = << >>

Init == GreedyInit /\ ResolverIdle
    /\ GeneticIdle /\ FitnessIdle /\ EvaluationIdle /\ ComplianceIdle

Next == GreedyNext

Spec == Init /\ [][Next]_vars

InitResolver == GreedyIdle /\ ResolverInit
    /\ GeneticIdle /\ FitnessIdle /\ EvaluationIdle /\ ComplianceIdle

SpecResolver == InitResolver /\ [][ResolverNext]_vars

InitGenetic == GreedyIdle /\ ResolverIdle
    /\ GeneticInit /\ FitnessIdle /\ EvaluationIdle /\ ComplianceIdle

SpecGenetic == InitGenetic /\ [][GeneticNext]_vars

\* optimize_schedule in the runs in which no gene is mutated and no
\* crossover is drawn, on schedules of up to twelve classes
InitUnmutated ==
    /\ GreedyIdle /\ ResolverIdle /\ FitnessIdle /\ EvaluationIdle /\ ComplianceIdle
    /\ population_size = 50
    /\ generations = 100
    /\ mutation_rate = 10
    /\ initial_schedule \in UnmutatedSeedSchedules
    /\ optimization_level \in Levels
    /\ population = << >>
    /\ new_population = << >>
    /\ gene_objects = << >>
    /\ best_solution = None
    /\ best_fitness = NegInf
    /\ current_best = NegInf
    /\ generation = 0
    /\ evaluated_max = NegInf
    /\ optimized = None
    /\ opc = "idle"
    /\ oerror = None

UnmutatedNext ==
    \/ OptimizeSchedule
    \/ AddCopyLeftAlone
    \/ EvaluateGeneration
    \/ BreedByCopyLeftAlone
    \/ ChromosomeToSchedule

SpecUnmutated == InitUnmutated /\ [][UnmutatedNext]_vars

\* optimize_schedule on a schedule without classes, with the population
\* sizes of the levels: every chromosome has no genes, so that mutation
\* changes nothing and _crossover returns copies
FullSizeLevels == {"low", "medium"}

InitFullSize ==
    /\ InitGenetic
    /\ initial_schedule = _generate_schedule_output(<< >>)
    /\ optimization_level \in FullSizeLevels

FullSizeNext ==
    \/ OptimizeScheduleFullSize
    \/ AddMutatedCopy
    \/ AddRandomChromosome
    \/ EvaluateGeneration
    \/ BreedByCopy
    \/ ChromosomeToSchedule

SpecFullSize == InitFullSize /\ [][FullSizeNext]_vars

InitFitness == GreedyIdle /\ ResolverIdle
    /\ GeneticIdle /\ FitnessInit /\ EvaluationIdle /\ ComplianceIdle

SpecFitness == InitFitness /\ [][CalculateFitness]_vars

\* a GreedyScheduler with a catalog to normalize
NormalizerInit ==
    /\ schedule_matrix = << >>
    /\ faculty_schedule = << >>
    /\ room_schedule = << >>
    /\ group_schedule = << >>
    /\ constraints = << >>
    /\ request_data \in NormalizerCatalogs
    /\ requirements = << >>
    /\ available_rooms = << >>
    /\ req_idx = 0
    /\ occurrence = 0
    /\ scheduled_classes = << >>
    /\ gpc = "idle"
    /\ gerror = None
    /\ returned = << >>

InitNormalizer ==
    NormalizerInit /\ ResolverIdle
    /\ GeneticIdle /\ FitnessIdle /\ EvaluationIdle /\ ComplianceIdle

SpecNormalizer == InitNormalizer /\ [][ParseClassRequirements]_vars

InitEvaluation == GreedyIdle /\ ResolverIdle
    /\ GeneticIdle /\ FitnessIdle /\ EvaluationInit /\ ComplianceIdle

SpecEvaluation == InitEvaluation /\ [][EvaluationNext]_vars

InitCompliance == GreedyIdle /\ ResolverIdle
    /\ GeneticIdle /\ FitnessIdle /\ EvaluationIdle /\ ComplianceInit

SpecCompliance == InitCompliance /\ [][CheckCompliance]_vars

-----------------------------------------------------------------------------
(* Claims about the greedy scheduler (specification Spec) *)

\* the periods an assignment covers: [period, period + duration) of its day
Covers(c) == {TimeSlot(c.day, c.period + i) : i \in 0..(c.duration - 1)}

\* C1: no two assignments committed in a call that share a faculty, a room
\* or a cohort cover a common (day, period).
C1_NoDoubleBooking ==
    \A i, j \in DOMAIN scheduled_classes :
        LET a == scheduled_classes[i]
            b == scheduled_classes[j]
        IN  (/\ i < j
             /\ \/ a.faculty_id = b.faculty_id
                \/ a.room_id = b.room_id
                \/ a.student_group_id = b.student_group_id)
            => Covers(a) \cap Covers(b) = {}

\* two assignments of one faculty, one cohort and one room were committed
\* on the same day
C1_Witness ==
    \E i, j \in DOMAIN scheduled_classes :
        /\ i < j
        /\ scheduled_classes[i].faculty_id = scheduled_classes[j].faculty_id
        /\ scheduled_classes[i].room_id = scheduled_classes[j].room_id
        /\ scheduled_classes[i].student_group_id = scheduled_classes[j].student_group_id
        /\ scheduled_classes[i].day = scheduled_classes[j].day

\* the catalog entries of a faculty id
FacultyEntries(id) ==
    {request_data.faculty[i] : i \in {k \in DOMAIN request_data.faculty :
                                         request_data.faculty[k].faculty_id = id}}

\* the catalog lists cell c as unavailable for the faculty entry f
ListsUnavailable(f, c) == SlotString(DayTitles[c.day + 1], c.period) \in f.unavailable_slots

\* C2: no committed assignment covers, in any of its periods, a slot listed
\* in its faculty's unavailable_slots.
C2_FacultyAvailability ==
    \A i \in DOMAIN scheduled_classes :
        \A f \in FacultyEntries(scheduled_classes[i].faculty_id) :
            \A c \in Covers(scheduled_classes[i]) : ~ListsUnavailable(f, c)

\* a two-period assignment was committed for a faculty with unavailable slots
C2_Witness ==
    \E i \in DOMAIN scheduled_classes :
        /\ scheduled_classes[i].duration = 2
        /\ \E f \in FacultyEntries(scheduled_classes[i].faculty_id) :
              \E c \in AllCells : ListsUnavailable(f, c)

\* the assignments committed for a requirement in the current call
CommittedFor(r) ==
    Cardinality({i \in DOMAIN scheduled_classes :
                    /\ scheduled_classes[i].subject_id = r.subject_id
                    /\ scheduled_classes[i].student_group_id = r.student_group_id})

\* the occurrences of a requirement a returned schedule records as unplaced
UnplacedFor(schedule, r) ==
    IF "unplaced" \in DOMAIN schedule
    THEN Cardinality({i \in DOMAIN schedule["unplaced"] :
                         /\ schedule["unplaced"][i].subject_id = r.subject_id
                         /\ schedule["unplaced"][i].student_group_id = r.student_group_id})
    ELSE 0

\* C4: in a returned schedule, committed assignments plus occurrences recorded
\* in `unplaced` equal the weekly_frequency of every requirement.
C4_FrequencyAccounted ==
    gpc = "returned" =>
        \A k \in DOMAIN requirements :
            CommittedFor(requirements[k])
              + UnplacedFor(returned[Len(returned)], requirements[k])
            = requirements[k].weekly_frequency

\* C7: two calls on one instance with the same catalog return the same schedule.
C7_NoLeakBetweenRuns ==
    Len(returned) >= 2 => returned[2] = returned[1]

\* lexicographic order of the room ids of the catalogs
RoomIdOrder == << "L1", "R1", "R2" >>

\* candidate a comes before candidate b in the order of the specification:
\* higher score, then lower day, then lower period, then smaller room id
Preferred(a, b) ==
    \/ a.negscore < b.negscore
    \/ /\ a.negscore = b.negscore
       /\ \/ a.slot.day < b.slot.day
          \/ /\ a.slot.day = b.slot.day
             /\ \/ a.slot.period < b.slot.period
                \/ /\ a.slot.period = b.slot.period
                   /\ IndexOf(RoomIdOrder, a.room.room_id)
                        <= IndexOf(RoomIdOrder, b.room.room_id)

CurrentCandidates ==
    CandidateSlots(CurrentReq, available_rooms[CurrentReq.room_type],
                   faculty_schedule, room_schedule, group_schedule, constraints)

\* C10: whenever candidate cells exist for the occurrence at hand, the
\* selection does not raise and returns the candidate that is first in the
\* order (score, day, period, room id).
C10_BestCandidateSelected ==
    (gpc = "scheduling" /\ req_idx <= Len(requirements)
       /\ available_rooms[CurrentReq.room_type] # << >>) =>
        LET cands == CurrentCandidates
            best == CurrentBest
        IN  cands # << >> =>
              /\ best.kind = "slot"
              /\ \E m \in DOMAIN cands :
                    /\ cands[m].slot = best.slot
                    /\ cands[m].room = best.room
                    /\ \A k \in DOMAIN cands : Preferred(cands[m], cands[k])

\* the catalog offers no room of the type the requirement asks for
NoRoomOfType(r) == available_rooms[r.room_type] = << >>

\* the cells in which the requirement could still be placed, given the busy
\* sets as they are
StillPlaceable(r) ==
    /\ ~NoRoomOfType(r)
    /\ CandidateSlots(r, available_rooms[r.room_type], faculty_schedule,
                      room_schedule, group_schedule, constraints) # << >>

\* C11: for a requirement whose room type has no room, _find_best_slot
\* returns None without raising, and the returned schedule has none of its
\* occurrences committed, all of them recorded in `unplaced`, and every later
\* requirement that can still be placed committed in full.
C11_NoRoomSkippedAsUnplaced ==
    /\ (gpc = "scheduling" /\ req_idx <= Len(requirements) /\ NoRoomOfType(CurrentReq))
          => CurrentBest.kind = "None"
    /\ gpc = "returned" =>
          \A k \in DOMAIN requirements :
              NoRoomOfType(requirements[k]) =>
                /\ CommittedFor(requirements[k]) = 0
                /\ UnplacedFor(returned[Len(returned)], requirements[k])
                      = requirements[k].weekly_frequency
                /\ \A m \in (k + 1)..Len(requirements) :
                      CommittedFor(requirements[m]) < requirements[m].weekly_frequency
                        => ~StillPlaceable(requirements[m])

\* C12: every committed assignment ends by the last period of its day:
\* period + duration <= periods_per_day.
C12_WithinDay ==
    \A i \in DOMAIN scheduled_classes :
        scheduled_classes[i].period + scheduled_classes[i].duration <= periods_per_day

\* a two-period assignment was committed in the last two periods of a day
C12_Witness ==
    \E i \in DOMAIN scheduled_classes :
        /\ scheduled_classes[i].duration = 2
        /\ scheduled_classes[i].period + 2 = periods_per_day

\* the catalog entries that carry a room id
CatalogRooms(room_id) ==
    {request_data.rooms[i] : i \in {k \in DOMAIN request_data.rooms :
                                       request_data.rooms[k].room_id = room_id}}

\* the requirements an assignment can have been committed for
RequirementsOf(c) ==
    {requirements[k] : k \in {m \in DOMAIN requirements :
                                 /\ requirements[m].subject_id = c.subject_id
                                 /\ requirements[m].student_group_id = c.student_group_id}}

\* C13: every committed assignment is in a room of the catalog whose type is
\* the room_type of its requirement.
C13_RoomTypeMatches ==
    \A i \in DOMAIN scheduled_classes :
        /\ CatalogRooms(scheduled_classes[i].room_id) # {}
        /\ \A room \in CatalogRooms(scheduled_classes[i].room_id) :
              \A r \in RequirementsOf(scheduled_classes[i]) : room.type = r.room_type

\* a practical was committed to the lab of a catalog that also has a lecture
\* room
C13_Witness ==
    \E i \in DOMAIN scheduled_classes :
        /\ \E room \in CatalogRooms(scheduled_classes[i].room_id) : room.type = "lab"
        /\ \E k \in DOMAIN request_data.rooms : request_data.rooms[k].type = "lecture"

\* the string has the shape <day>_<period> with a known day name
WellFormedSlot(s) ==
    /\ s.seps = 1
    /\ IndexOf(day_names, Lower(s.day)) >= 0
    /\ s.period_is_int

\* C22: with a malformed unavailable-slot string or an unknown day name in
\* the catalog the run fails: generate_initial_schedule does not get past the
\* parsing of the faculty constraints.
C22_MalformedSlotFails ==
    (\E i \in DOMAIN request_data.faculty :
        \E s \in request_data.faculty[i].unavailable_slots : ~WellFormedSlot(s))
    => gpc \in {"idle", "raised"}

\* the candidate cells of the occurrence at hand that satisfy every hard
\* constraint: the class ends within the day, and the faculty, the room and
\* the cohort are free and the faculty available in each of its periods
FeasibleCandidates ==
    IF CurrentReq.room_type \notin DOMAIN available_rooms THEN {}
    ELSE {c \in [slot : AllCells, room : Range(available_rooms[CurrentReq.room_type])] :
             /\ c.slot.period + CurrentReq.duration <= periods_per_day
             /\ _check_hard_constraints(c.slot, CurrentReq, c.room, faculty_schedule,
                                        room_schedule, group_schedule, constraints)}

\* C38: an occurrence for which some candidate cell satisfies all hard
\* constraints is not left unplaced: _find_best_slot returns None only when
\* no candidate cell satisfies the hard constraints.
C38_FeasibleOccurrencePlaced ==
    (gpc = "scheduling" /\ req_idx <= Len(requirements) /\ CurrentBest.kind = "None")
        => FeasibleCandidates = {}

\* the cohort's busy cells on the day of the candidate
CohortDayLoad(slot, req) ==
    Cardinality({s \in Busy(group_schedule, req.student_group_id) : s.day = slot.day})

\* the rooms of the committed classes of the faculty member that cover cell s
RoomsOfExisting(faculty_id, s) ==
    {scheduled_classes[i].room_id : i \in
        {j \in DOMAIN scheduled_classes :
            /\ scheduled_classes[j].faculty_id = faculty_id
            /\ scheduled_classes[j].day = s.day
            /\ scheduled_classes[j].period <= s.period
            /\ s.period < scheduled_classes[j].period + scheduled_classes[j].duration}}

\* the busy cells of the faculty member in the periods next to the candidate
\* whose class sits in another room than the candidate room
AdjacentElsewhere(slot, req, room) ==
    {s \in Busy(faculty_schedule, req.faculty_id) :
        /\ s.day = slot.day
        /\ Abs(s.period - slot.period) = 1
        /\ \E r \in RoomsOfExisting(req.faculty_id, s) : r # room.room_id}

\* the score of a hard-feasible candidate with the two penalties as stated:
\* 10 for every class of the cohort's day beyond four, 25 for every adjacent
\* class of the faculty member in another room
StatedScore(slot, req, room) ==
    LET known == req.faculty_id \in DOMAIN constraints
        constraint == constraints[req.faculty_id]
        preferred == IF req.preferred_slots # {} /\ slot \in req.preferred_slots
                     THEN 50 ELSE 0
        day_bonus == IF known /\ constraint.preferred_days # {}
                        /\ slot.day \in constraint.preferred_days
                     THEN 20 ELSE 0
        consecutive_penalty ==
            IF known
            THEN _calculate_consecutive_penalty(slot, req.faculty_id, constraint,
                                                faculty_schedule)
            ELSE 0
        gap_penalty ==
            IF known
            THEN _calculate_gap_penalty(slot, req.faculty_id, constraint, faculty_schedule)
            ELSE 0
        fatigue == IF Lower(req.subject_name) \in {"mathematics", "physics", "chemistry"}
                      /\ slot.period >= 5
                   THEN 30 ELSE 0
        capacity_penalty == IF room.capacity < 30 THEN 10 ELSE 0
    IN  Max(0, 100 + preferred + day_bonus - consecutive_penalty - gap_penalty
               - 25 * Cardinality(AdjacentElsewhere(slot, req, room))
               - fatigue - 10 * Max(0, CohortDayLoad(slot, req) - 4) - capacity_penalty)

\* C39: the soft score of every candidate that satisfies the hard constraints
\* subtracts 10 * max(0, cohort_day_load - 4) for the cohort's load on the
\* candidate day and 25 for each existing class of the same faculty in an
\* adjacent period of the same day that sits in a different room.
C39_StatedPenaltiesApplied ==
    (gpc = "scheduling" /\ req_idx <= Len(requirements))
        => \A c \in FeasibleCandidates :
              _evaluate_slot(c.slot, CurrentReq, c.room, faculty_schedule, room_schedule,
                             group_schedule, constraints)
                  = StatedScore(c.slot, CurrentReq, c.room)

-----------------------------------------------------------------------------
(* Claims about the conflict resolver (specification SpecResolver) *)

\* more than one class of the cell is bucketed under the entity
DoubleBooked(weekly, store, kind, entity, day, time_slot) ==
    Cardinality({i \in DOMAIN SlotClasses(weekly, day, time_slot) :
                    EntityOf(kind, store[SlotClasses(weekly, day, time_slot)[i]]) = entity}) > 1

\* the residual list holds a critical conflict for the bucket of conflict c
InResidual(c) ==
    \E j \in DOMAIN rresidual :
        /\ rresidual[j].conflict_type = c.conflict_type
        /\ rresidual[j].entity = c.entity
        /\ rresidual[j].day = c.day
        /\ rresidual[j].time_slot = c.time_slot
        /\ rresidual[j].severity = "critical"

StillPresent(c) ==
    DoubleBooked(rschedule, rclasses, c.conflict_id.kind, c.entity, c.day, c.time_slot)

\* C5: the residual list attached after repair is no longer than the list of
\* conflicts detected before repair.
C5_RepairNeverIncreases ==
    rpc = "done" => Len(rresidual) <= Len(rconflicts)

\* C6: every critical conflict of the first detection is, in the returned
\* schedule, either gone (its entity is no longer double-booked in that cell)
\* or listed in schedule['conflicts'] with severity critical.
C6_CriticalAbsentOrResidual ==
    rpc = "done" =>
        \A i \in DOMAIN rconflicts :
            (rconflicts[i].severity = "critical" /\ StillPresent(rconflicts[i]))
                => InResidual(rconflicts[i])

\* a run returned in which one detected conflict is gone and another is
\* still present
C6_Witness ==
    /\ rpc = "done"
    /\ \E i, j \in DOMAIN rconflicts :
          /\ ~StillPresent(rconflicts[i])
          /\ StillPresent(rconflicts[j])
          /\ InResidual(rconflicts[j])

\* the catalog of the resolver's runs: faculty F3 has marked all of Monday
\* unavailable
UnavailableTo(faculty_id) ==
    IF faculty_id = "F3"
    THEN {[day |-> "monday", time_slot |-> time_slots[i]] : i \in DOMAIN time_slots}
    ELSE {}

HonorsUnavailability(weekly, store) ==
    \A d \in Range(day_names) :
        \A i \in DOMAIN weekly[d] :
            \A r \in Range(weekly[d][i].value) :
                [day |-> d, time_slot |-> weekly[d][i].key]
                    \notin UnavailableTo(store[r].faculty_id)

\* C3: a schedule that honors the faculty's unavailable slots when it is
\* handed to the resolver still honors them when it is returned.
C3_UnavailabilityHonored ==
    (rpc = "done" /\ HonorsUnavailability(rinput.weekly_schedule, rinput.classes))
        => HonorsUnavailability(rschedule, rclasses)

\* the Conflict records the resolver instance has created, in order
CreatedConflicts == rconflicts \o rresidual

\* C25: conflict ids are <kind>_conflict_<n> with n from the counter of the
\* resolver instance: over the detection before the repair and the one after
\* it, n grows from one Conflict record to the next, so no two records share
\* it, and it stays below the counter.
C25_ConflictNumbersDistinct ==
    /\ \A i \in DOMAIN CreatedConflicts :
          /\ CreatedConflicts[i].conflict_id.kind \in {"faculty", "room", "student"}
          /\ CreatedConflicts[i].conflict_id.n >= 0
          /\ CreatedConflicts[i].conflict_id.n < conflict_count
    /\ \A i, j \in DOMAIN CreatedConflicts :
          i < j => CreatedConflicts[i].conflict_id.n < CreatedConflicts[j].conflict_id.n

\* a call that found conflicts of two kinds in one detection and conflicts
\* again after the repair
C25_Witness ==
    /\ rpc = "done"
    /\ rresidual # << >>
    /\ \E i, j \in DOMAIN rconflicts :
          rconflicts[i].conflict_id.kind # rconflicts[j].conflict_id.kind

DetectorKinds == {"faculty", "room", "student"}

\* the ids the classes carry for a kind of entity
EntityIds(store, kind) == {EntityOf(kind, store[r]) : r \in DOMAIN store}

\* the records of a conflict list for one bucket
RecordsOf(conflicts, kind, entity, day, time_slot) ==
    {i \in DOMAIN conflicts :
        /\ conflicts[i].conflict_type = ConflictType(kind)
        /\ conflicts[i].entity = entity
        /\ conflicts[i].day = day
        /\ conflicts[i].time_slot = time_slot}

\* the conflict list is the detection of the schedule: one critical record
\* for every bucket of more than one class and none for any other bucket
ExactDetection(conflicts, weekly, store) ==
    /\ \A i \in DOMAIN conflicts : conflicts[i].severity = "critical"
    /\ \A kind \in DetectorKinds, day \in Range(day_names), time_slot \in Range(time_slots) :
          \A entity \in EntityIds(store, kind) :
             Cardinality(RecordsOf(conflicts, kind, entity, day, time_slot))
                = IF DoubleBooked(weekly, store, kind, entity, day, time_slot)
                  THEN 1 ELSE 0
    /\ \A i \in DOMAIN conflicts :
          \E kind \in DetectorKinds :
             /\ conflicts[i].conflict_type = ConflictType(kind)
             /\ conflicts[i].entity \in EntityIds(store, kind)
             /\ conflicts[i].day \in Range(day_names)
             /\ conflicts[i].time_slot \in Range(time_slots)

\* two classes of one cell share a faculty, a room or a cohort
SharedInSomeCell(weekly, store) ==
    \E day \in Range(day_names), time_slot \in Range(time_slots) :
        LET cell == SlotClasses(weekly, day, time_slot)
        IN  \E i, j \in DOMAIN cell :
               /\ i # j
               /\ \E kind \in DetectorKinds :
                     EntityOf(kind, store[cell[i]]) = EntityOf(kind, store[cell[j]])

C34_WitnessRepaired ==
    /\ rpc = "done"
    /\ rconflicts # << >>
    /\ rresidual = << >>

\* the entries of the weekly schedule that hold the class object
EntriesOf(weekly, ref) ==
    {e \in Range(WeekEntries(weekly, 1)) : e.ref = ref}

\* how often the class object is listed in the weekly schedule
TimesListed(weekly, ref) ==
    Cardinality({i \in DOMAIN WeekEntries(weekly, 1) : WeekEntries(weekly, 1)[i].ref = ref})

\* C35: after the faculty_overlap and student_clash repairs of one
\* resolve_conflicts run every class of the input schedule is listed in
\* exactly one (day, time slot) cell of the output, so the number of class
\* entries is unchanged.
C35_RepairMovesNeverDuplicatesOrDrops ==
    rpc = "done" =>
        /\ \A ref \in DOMAIN rclasses : TimesListed(rschedule, ref) = 1
        /\ Len(WeekEntries(rschedule, 1)) = Len(WeekEntries(rinput.weekly_schedule, 1))

\* the cells in scan order: Monday to Friday, and the periods of a day in order
ScanCells ==
    [k \in 1..(Len(day_names) * Len(time_slots)) |->
        [day |-> day_names[((k - 1) \div Len(time_slots)) + 1],
         time_slot |-> time_slots[((k - 1) % Len(time_slots)) + 1]]]

\* neither the faculty nor the cohort of the class has a class in the cell
FreeFor(weekly, store, ref, cell) ==
    \A r \in Range(SlotClasses(weekly, cell.day, cell.time_slot)) :
        /\ store[r].faculty_id # store[ref].faculty_id
        /\ GroupIdOf(store[r]) # GroupIdOf(store[ref])

\* the cells that list the class object
CellsOf(weekly, ref) ==
    {k \in DOMAIN ScanCells :
        ref \in Range(SlotClasses(weekly, ScanCells[k].day, ScanCells[k].time_slot))}

\* the conflict a repair step is about to handle
CurrentConflict == rconflicts[rnext]

RepairsSlotConflict ==
    /\ rpc = "repair"
    /\ rnext <= Len(rconflicts)
    /\ CurrentConflict.conflict_type \in {"faculty_overlap", "student_clash"}

\* C36: for a faculty_overlap or student_clash conflict the last-listed
\* affected class is moved to the first cell, scanning Monday to Friday and
\* the periods of each day in order, in which neither its faculty nor its
\* cohort already has a class: after the repair that cell, and no other,
\* lists the class; if there is no such cell the schedule is left unchanged.
C36_LastClassMovedToFirstFreeCell ==
    [][RepairsSlotConflict =>
        LET affected == CurrentConflict.affected_classes
            moved == affected[Len(affected)]
            free == {k \in DOMAIN ScanCells :
                        FreeFor(rschedule, rclasses, moved, ScanCells[k])}
        IN  IF free = {} THEN rschedule' = rschedule
            ELSE LET first == CHOOSE k \in free : \A m \in free : k <= m
                 IN  CellsOf(rschedule', moved) = {first}]_vars

\* the rooms of the catalog the schedules of the runs are made from
CatalogRoomIds == {c.class.room_id : c \in ClassPool}

RepairsRoomConflict ==
    /\ rpc = "repair"
    /\ rnext <= Len(rconflicts)
    /\ CurrentConflict.conflict_type = "room_booking"

\* another class listed in a cell of the class is in the room
OccupiedWhereLocated(weekly, store, ref, room_id) ==
    \E k \in CellsOf(weekly, ref) :
        \E r \in Range(SlotClasses(weekly, ScanCells[k].day, ScanCells[k].time_slot)) :
            r # ref /\ store[r].room_id = room_id

\* C37: for a room_booking conflict the room given to the last-listed class
\* is a room of the catalog that no other class occupies in the cell where
\* the class is at the time of the repair; without such a room the class
\* keeps its room.
C37_RoomFreeWhereClassIs ==
    [][RepairsRoomConflict =>
        LET affected == CurrentConflict.affected_classes
            reassigned == affected[Len(affected)]
            room_id == rclasses'[reassigned].room_id
        IN  /\ \A ref \in DOMAIN rclasses \ {reassigned} : rclasses'[ref] = rclasses[ref]
            /\ room_id # rclasses[reassigned].room_id =>
                  /\ room_id \in CatalogRoomIds
                  /\ ~OccupiedWhereLocated(rschedule, rclasses, reassigned, room_id)]_vars

-----------------------------------------------------------------------------
(* Claims about the genetic optimizer (specification SpecGenetic) *)

\* C8: best_fitness never decreases from one step of optimize_schedule to the
\* next, and the chromosome converted to the returned schedule has the
\* highest fitness any evaluation of the run gave.
C8_BestSeenMonotoneAndReturned ==
    /\ [][best_fitness' >= best_fitness]_vars
    /\ [](opc = "returned" =>
            /\ _calculate_fitness(best_solution.genes).total_score = evaluated_max
            /\ best_solution.fitness_score = evaluated_max
            /\ optimized.optimization_metrics.fitness_score = evaluated_max
            /\ optimized.weekly_schedule =
                  PopulateFromGenes(EmptyWeek, best_solution.genes, 1))

\* a run returned a chromosome that is fitter than every chromosome of the
\* last generation it evaluated
C8_Witness ==
    /\ opc = "returned"
    /\ generation >= 2
    /\ current_best < best_fitness
    /\ best_fitness = evaluated_max

\* two genes of the list share a faculty, a room or a cohort in one cell
GenesClash(genes) ==
    \E i, j \in DOMAIN genes :
        /\ i # j
        /\ genes[i].day = genes[j].day
        /\ genes[i].time_slot = genes[j].time_slot
        /\ \/ genes[i].faculty_id = genes[j].faculty_id
           \/ genes[i].room_id = genes[j].room_id
           \/ genes[i].student_group_id = genes[j].student_group_id

\* the classes of a greedy schedule, day by day
SeedClasses(schedule) ==
    UNION {UNION {Range(schedule.weekly_schedule[d][i].value) :
                     i \in DOMAIN schedule.weekly_schedule[d]} :
              d \in Range(day_names)}

SeedHasDoubleBooking(schedule) ==
    \E a, b \in SeedClasses(schedule) :
        /\ a # b
        /\ a.day = b.day
        /\ a.period = b.period
        /\ \/ a.faculty_id = b.faculty_id
           \/ a.room_id = b.room_id
           \/ a.student_group_id = b.student_group_id

\* C9: when the greedy seed has no double-booking, the chromosome that
\* optimize_schedule returns has no two genes with the same (faculty, day,
\* period), (room, day, period) or (cohort, day, period).
C9_NoClashReintroduced ==
    (opc = "returned" /\ ~SeedHasDoubleBooking(initial_schedule))
        => ~GenesClash(best_solution.genes)

\* the number of assignments of a weekly_schedule: the lengths of the class
\* lists of every time slot of every day
CountAssignments(weekly) ==
    SumSeq([d \in DOMAIN day_names |->
              SumSeq([k \in DOMAIN weekly[day_names[d]] |->
                        Len(weekly[day_names[d]][k].value)])])

\* C14: the schedule optimize_schedule returns carries
\* statistics.total_classes_scheduled, and it equals the number of
\* assignments of its weekly_schedule.
C14_TotalMatchesStatistics ==
    opc = "returned" =>
        /\ "statistics" \in DOMAIN optimized
        /\ CountAssignments(optimized.weekly_schedule)
              = optimized.statistics.total_classes_scheduled

\* (subject, faculty, room, cohort, day, period) of a greedy assignment
TupleOfClass(c) ==
    <<c.subject_id, c.faculty_id, c.room_id, c.student_group_id, c.day, c.period>>

\* (subject, faculty, room, cohort, day, period) of a gene
TupleOfGene(g) ==
    <<g.subject_id, g.faculty_id, g.room_id, g.student_group_id, g.day, g.time_slot>>

\* the same tuples read off the class entries of a schedule that
\* _chromosome_to_schedule made
TuplesOfConverted(weekly) ==
    UNION {UNION {{<<c.subject_id, c.faculty_id, c.room_id, c.group_id,
                     IndexOf(day_names, d), IndexOf(time_slots, weekly[d][i].key)>> :
                      c \in Range(weekly[d][i].value)} :
                     i \in DOMAIN weekly[d]} :
              d \in Range(day_names)}

\* C15: before the first generation, the chromosome at index 0 has one gene
\* per assignment of the greedy schedule, the genes carry the assignments'
\* (subject, faculty, room, cohort, day, period), and _chromosome_to_schedule
\* gives these tuples back.
C15_SeedChromosomeFaithful ==
    (opc \in {"initialize", "evaluate"} /\ generation = 0) =>
        LET genes == GeneValues(gene_objects, population[1])
            assignments == {TupleOfClass(c) : c \in SeedClasses(initial_schedule)}
        IN  /\ Len(genes) = Cardinality(assignments)
            /\ {TupleOfGene(genes[i]) : i \in DOMAIN genes} = assignments
            /\ TuplesOfConverted(PopulateFromGenes(EmptyWeek, genes, 1)) = assignments

\* the parameters the levels of the request interface stand for
LevelParameters(level) ==
    CASE level = "low" ->
            [generations |-> 50, population_size |-> 30, mutation_rate |-> 20]
      [] level = "med" ->
            [generations |-> 100, population_size |-> 50, mutation_rate |-> 10]
      [] level = "high" ->
            [generations |-> 150, population_size |-> 100, mutation_rate |-> 5]

\* C23: for each of the levels low, med and high optimize_schedule runs
\* with the parameters of the level: N = 30, G = 50, mutation 0.2 for low;
\* N = 50, G = 100, mutation 0.1 for med; N = 100, G = 150, mutation 0.05
\* for high.
C23_LevelSelectsParameters ==
    (opc \notin {"off", "idle"} /\ optimization_level \in {"low", "med", "high"}) =>
        /\ _set_optimization_parameters(optimization_level)
              = LevelParameters(optimization_level)
        /\ mutation_rate = LevelParameters(optimization_level).mutation_rate

\* C24: when the fitness evaluation of a chromosome fails, optimize_schedule
\* does not raise: the pass is given up and the best solution seen so far
\* is returned.
C24_EvaluationFailureContained ==
    [][(opc = "evaluate" /\ FailingTasks # {}) => opc' # "raised"]_vars

\* C27: the population holds exactly population_size chromosomes whenever a
\* generation starts or the loop ends, and the population
\* _initialize_population returns has the seed chromosome at index 0.
C27_PopulationSizeKept ==
    /\ opc \in {"evaluate", "convert"} => Len(population) = population_size
    /\ (opc = "evaluate" /\ generation = 0) =>
          GeneValues(gene_objects, population[1])
              = _schedule_to_chromosome(initial_schedule)

\* a generation of 50 chromosomes made by _create_next_generation from 10
\* elites and children appended in pairs
C27_Witness ==
    /\ opc = "evaluate"
    /\ generation >= 1
    /\ population_size = 50
    /\ elite_count(population_size) = 10
    /\ Len(population) = population_size

\* the genes of the chromosomes of a list, by value
ValuesOfAll(store, chromosomes) ==
    [c \in DOMAIN chromosomes |-> GeneValues(store, chromosomes[c])]

\* C28: mutating a crossover child changes the genes of no other chromosome:
\* not of its parents or any chromosome of the old population, not of the
\* elites already in the new population, and not of the other child.
C28_MutationLeavesOthersAlone ==
    opc = "breed" =>
        \A p1, p2 \in _tournament_selection(population) :
            LET parent1 == population[p1]
                parent2 == population[p2]
                min_length == Min(Len(parent1.genes), Len(parent2.genes))
            IN  (parent1.genes # << >> /\ parent2.genes # << >>) =>
                \A crossover_point \in 1..(min_length - 1) :
                    LET children == _crossover(parent1, parent2, crossover_point)
                    IN  \A plan \in MutationPlans(gene_objects, children[1]) :
                           LET mutated == _mutate_chromosome(gene_objects, children[1], plan)
                           IN  /\ ValuesOfAll(mutated, population)
                                    = ValuesOfAll(gene_objects, population)
                               /\ ValuesOfAll(mutated, new_population)
                                    = ValuesOfAll(gene_objects, new_population)
                               /\ GeneValues(mutated, children[2])
                                    = GeneValues(gene_objects, children[2])

\* C29: _crossover returns two children for every pair of parents, also for
\* parents of a single gene: no pass of the loop of _create_next_generation
\* raises.
C29_CrossoverReturnsChildren ==
    [][opc = "breed" => opc' # "raised"]_vars

\* the fields of a gene that differ between two values of it
ChangedFields(before, after) ==
    {f \in {"subject_id", "faculty_id", "student_group_id", "room_id", "day", "time_slot"} :
        before[f] # after[f]}

\* C30: _mutate_chromosome keeps the number of genes and, in each gene, the
\* subject, the faculty and the cohort; it changes at most one of day,
\* time_slot and room_id, keeps day in 0..4 and time_slot in 0..7; and a
\* room mutation puts a room id of the catalog in the gene, so that with two
\* rooms in the catalog some mutation leaves a gene with another room.
C30_MutationChangesOneField ==
    opc = "breed" =>
        \A c \in DOMAIN population :
            LET genes == GeneValues(gene_objects, population[c])
                plans == MutationPlans(gene_objects, population[c])
            IN  /\ \A plan \in plans :
                      /\ DOMAIN plan = DOMAIN genes
                      /\ \A i \in DOMAIN genes :
                            /\ ChangedFields(genes[i], plan[i])
                                  \subseteq {"day", "time_slot", "room_id"}
                            /\ Cardinality(ChangedFields(genes[i], plan[i])) <= 1
                            /\ plan[i].day \in 0..4
                            /\ plan[i].time_slot \in 0..7
                /\ (genes # << >> /\ Cardinality(initial_schedule.rooms) >= 2) =>
                      \E plan \in plans : \E i \in DOMAIN genes :
                          /\ plan[i].room_id # genes[i].room_id
                          /\ plan[i].room_id \in initial_schedule.rooms

\* C33: the loop of optimize_schedule runs at most G generations and stops
\* as soon as the best fitness seen is >= 99.0, and the generations_used of
\* the returned ai_metadata is the number of generations that were run.
C33_GenerationsUsedIsExecuted ==
    /\ generation <= generations
    /\ (opc = "evaluate" /\ generation >= 1) => best_fitness < 99 * FitnessUnit
    /\ opc = "returned" => optimized.ai_metadata.generations_used = generation

-----------------------------------------------------------------------------
(* Claims about the fitness function (specification SpecFitness) *)

\* every faculty of the chromosome uses one room on each of its days
OneRoomPerFacultyDay(genes) ==
    \A i, j \in DOMAIN genes :
        (genes[i].faculty_id = genes[j].faculty_id /\ genes[i].day = genes[j].day)
            => genes[i].room_id = genes[j].room_id

\* C16: the green sub-score is 100 for every chromosome in which each faculty
\* uses exactly one room on each day.
C16_GreenFullWhenOneRoom ==
    (fpc = "scored" /\ OneRoomPerFacultyDay(evaluated_genes))
        => fitness.green_score = 100 * FitnessScale

\* a faculty has two classes on one day, both in one room
C16_Witness ==
    /\ fpc = "scored"
    /\ OneRoomPerFacultyDay(evaluated_genes)
    /\ \E i, j \in DOMAIN evaluated_genes :
          /\ i # j
          /\ evaluated_genes[i].faculty_id = evaluated_genes[j].faculty_id
          /\ evaluated_genes[i].day = evaluated_genes[j].day

\* a cohort has two heavy subjects in consecutive periods of one day
HeavyBackToBack(genes) ==
    \E i, j \in DOMAIN genes :
        /\ genes[i].student_group_id = genes[j].student_group_id
        /\ genes[i].day = genes[j].day
        /\ genes[j].time_slot = genes[i].time_slot + 1
        /\ Lower(genes[i].subject_id) \in heavy_subjects
        /\ Lower(genes[j].subject_id) \in heavy_subjects

\* C17: the fatigue sub-score is 100 for every chromosome in which no cohort
\* has two heavy-subject genes in consecutive periods of one day.
C17_FatigueFullWhenNoBackToBack ==
    (fpc = "scored" /\ ~HeavyBackToBack(evaluated_genes))
        => fitness.fatigue_score = 100 * FitnessScale

\* a cohort has two heavy subjects on one day, not in consecutive periods,
\* or a heavy and a light subject in consecutive periods
C17_Witness ==
    /\ fpc = "scored"
    /\ ~HeavyBackToBack(evaluated_genes)
    /\ \E i, j \in DOMAIN evaluated_genes :
          /\ i # j
          /\ evaluated_genes[i].student_group_id = evaluated_genes[j].student_group_id
          /\ evaluated_genes[i].day = evaluated_genes[j].day
          /\ Lower(evaluated_genes[i].subject_id) \in heavy_subjects
          /\ \/ Lower(evaluated_genes[j].subject_id) \in heavy_subjects
             \/ evaluated_genes[j].time_slot = evaluated_genes[i].time_slot + 1

\* the genes that repeat the (entity, day, period) of an earlier gene
DuplicateOccurrences(genes, field) ==
    {i \in DOMAIN genes :
        \E j \in 1..(i - 1) :
            /\ genes[j][field] = genes[i][field]
            /\ genes[j].day = genes[i].day
            /\ genes[j].time_slot = genes[i].time_slot}

\* c of the conflict score
DuplicateCount(genes) ==
    Cardinality(DuplicateOccurrences(genes, "faculty_id"))
        + Cardinality(DuplicateOccurrences(genes, "room_id"))
        + Cardinality(DuplicateOccurrences(genes, "student_group_id"))

\* Conflict of the fitness formula, times FitnessScale
ConflictFormula(genes) ==
    IF Len(genes) = 0 THEN 100 * FitnessScale
    ELSE Max(0, 100 * FitnessScale
                  - (DuplicateCount(genes) * 200 * FitnessScale) \div Len(genes))

SubScoreRange == 0..(100 * FitnessScale)

\* C31: the fitness is 0.40*Conflict + 0.25*Util + 0.20*Green + 0.15*Fatigue,
\* every sub-score is in [0,100] and so is the fitness, for every chromosome;
\* Conflict is max(0, 100 - (c/|genes|)*200) for c duplicate (faculty | room |
\* cohort, day, period) occurrences, and 100 for a chromosome without genes.
C31_WeightedFitnessInRange ==
    fpc = "scored" =>
        LET Conflict == 100 * FitnessScale - fitness.conflicts
        IN  /\ Conflict = ConflictFormula(evaluated_genes)
            /\ Conflict \in SubScoreRange
            /\ fitness.utilization \in SubScoreRange
            /\ fitness.green_score \in SubScoreRange
            /\ fitness.fatigue_score \in SubScoreRange
            /\ fitness.total_score =
                  40 * Conflict + 25 * fitness.utilization
                    + 20 * fitness.green_score + 15 * fitness.fatigue_score
            /\ fitness.total_score \in 0..(100 * FitnessUnit)

\* a chromosome whose duplicates bring 100 - (c/|genes|)*200 below 0
C31_Witness ==
    /\ fpc = "scored"
    /\ Len(evaluated_genes) > 0
    /\ DuplicateCount(evaluated_genes) * 200 > 100 * Len(evaluated_genes)
    /\ fitness.conflicts = 100 * FitnessScale

\* a chromosome without genes
C31_WitnessNoGenes ==
    /\ fpc = "scored"
    /\ evaluated_genes = << >>
    /\ fitness.conflicts = 0

-----------------------------------------------------------------------------
(* Claims about the parallel evaluation (specification SpecEvaluation) *)

\* the score fields of a chromosome set from a dict of _calculate_fitness
WithScores(chromosome, fitness_result) ==
    [genes |-> chromosome.genes,
     fitness_score |-> fitness_result.total_score,
     conflict_count |-> fitness_result.conflicts,
     utilization_score |-> fitness_result.utilization,
     green_score |-> fitness_result.green_score,
     fatigue_score |-> fitness_result.fatigue_score]

\* C32: while the worker pool evaluates a population no chromosome's genes
\* are modified; each result is written only into the score fields of the
\* chromosome it was computed from; and after the join the fitness fields of
\* every chromosome are those of a sequential evaluation of the population.
C32_ParallelEvaluationRaceFree ==
    [][/\ egene_objects' = egene_objects
       /\ DOMAIN epopulation' = DOMAIN epopulation
       /\ \A i \in DOMAIN epopulation :
             /\ epopulation'[i].genes = epopulation[i].genes
             /\ epopulation'[i] # epopulation[i] =>
                   /\ i = ecollected + 1
                   /\ fitness_tasks[i].state = "done"
                   /\ epopulation'[i] = WithScores(epopulation[i], fitness_tasks[i].result)
       /\ epc' = "joined" =>
             \A i \in DOMAIN epopulation' :
                epopulation'[i] = Evaluated(egene_objects', epopulation'[i])]_vars

\* the scores of one chromosome are stored while a worker thread is still
\* evaluating another chromosome that holds one of its Gene objects, with
\* every worker thread busy
C32_Witness ==
    /\ epc = "collect"
    /\ ecollected >= 1
    /\ epopulation[1].fitness_score # 0
    /\ Cardinality({j \in DOMAIN fitness_tasks :
                       fitness_tasks[j].state = "running"}) = max_workers
    /\ \E j \in DOMAIN fitness_tasks :
          /\ fitness_tasks[j].state = "running"
          /\ epopulation[j].genes # epopulation[1].genes
          /\ \E a \in DOMAIN epopulation[j].genes, b \in DOMAIN epopulation[1].genes :
                epopulation[j].genes[a] = epopulation[1].genes[b]

\* the evaluation is over for a population whose chromosomes score differently
C32_WitnessJoined ==
    /\ epc = "joined"
    /\ \E i, j \in DOMAIN epopulation :
          epopulation[i].fitness_score # epopulation[j].fitness_score

-----------------------------------------------------------------------------
(* Claims about the normalizer (specification SpecNormalizer) *)

\* the requirements emitted for a cohort under a subject id
EmittedFor(group, subject_id) ==
    SelectSeq(requirements,
              LAMBDA r : r.student_group_id = group.group_id /\ r.subject_id = subject_id)

\* the cohort needs the subject: the subject is for every programme or for
\* the cohort's, and is of the cohort's semester
CohortNeeds(group, subject) ==
    /\ \/ subject.programs = << >>
       \/ \E i \in DOMAIN subject.programs :
              Lower(subject.programs[i]) = Lower(group.program)
    /\ subject.semester = group.semester

\* C20: for each (cohort, subject) the cohort needs, the normalizer emits one
\* theory requirement (lecture room, duration 1, weekly frequency
\* max(1, credits \div 2)) exactly when theory_hours > 0, and one practical
\* requirement (lab room, duration 2, weekly frequency max(1, theory
\* frequency \div 2)) exactly when practical_hours > 0; nothing is emitted
\* for a pair the cohort does not need.
C20_RequirementsPerPair ==
    gpc = "parsed" =>
        \A si \in DOMAIN request_data.subjects, gi \in DOMAIN request_data.student_groups :
            LET subject == request_data.subjects[si]
                group == request_data.student_groups[gi]
                theory == EmittedFor(group, subject.subject_id)
                practical == EmittedFor(group, subject.subject_id \o "_lab")
                theory_freq == Max(1, subject.credits \div 2)
            IN  /\ Len(theory) =
                     (IF CohortNeeds(group, subject) /\ subject.theory_hours > 0
                      THEN 1 ELSE 0)
                /\ Len(practical) =
                     (IF CohortNeeds(group, subject) /\ subject.practical_hours > 0
                      THEN 1 ELSE 0)
                /\ \A i \in DOMAIN theory :
                      /\ theory[i].room_type = "lecture"
                      /\ theory[i].duration = 1
                      /\ theory[i].weekly_frequency = theory_freq
                /\ \A i \in DOMAIN practical :
                      /\ practical[i].room_type = "lab"
                      /\ practical[i].duration = 2
                      /\ practical[i].weekly_frequency = Max(1, theory_freq \div 2)

\* a subject of 8 credits with theory and practical hours, normalized into a
\* theory requirement 4 times a week and a practical one twice a week
C20_Witness ==
    /\ gpc = "parsed"
    /\ \E si \in DOMAIN request_data.subjects, gi \in DOMAIN request_data.student_groups :
          LET subject == request_data.subjects[si]
              group == request_data.student_groups[gi]
          IN  /\ subject.credits = 8
              /\ subject.theory_hours > 0
              /\ subject.practical_hours > 0
              /\ Len(EmittedFor(group, subject.subject_id)) = 1
              /\ EmittedFor(group, subject.subject_id)[1].weekly_frequency = 4
              /\ Len(EmittedFor(group, subject.subject_id \o "_lab")) = 1
              /\ EmittedFor(group, subject.subject_id \o "_lab")[1].weekly_frequency = 2

\* the ids of the catalogs in the order of Python's string comparison
IdOrder ==
    <<"G1", "G2", "S1", "S1_lab", "S2", "S2_lab", "S3", "S3_lab", "S4", "S4_lab">>

IdBefore(a, b) == IndexOf(IdOrder, a) < IndexOf(IdOrder, b)

\* (priority, cohort id, subject id) of r is at most that of s
KeyAtMost(r, s) ==
    \/ r.priority < s.priority
    \/ /\ r.priority = s.priority
       /\ \/ IdBefore(r.student_group_id, s.student_group_id)
          \/ /\ r.student_group_id = s.student_group_id
             /\ ~IdBefore(s.subject_id, r.subject_id)

\* C21: the requirements are emitted in ascending order of
\* (priority value, cohort id, subject id).
C21_SortedByPriorityCohortSubject ==
    gpc = "parsed" =>
        \A i, j \in DOMAIN requirements :
            i < j => KeyAtMost(requirements[i], requirements[j])

-----------------------------------------------------------------------------
(* Claims about the compliance checker (specification SpecCompliance) *)

FyupAudited == Get(audited, "program_type", "FYUP") \in {"FYUP", "ITEP"}

\* the credits of the subjects of the schedule counted under a category
CreditsIn(schedule, category) ==
    LET counted == SelectSeq(Get(schedule, "subjects", << >>),
                             LAMBDA s : Lower(s.type) = category)
    IN  SumSeq([i \in DOMAIN counted |-> counted[i].credits])

TotalCredits(schedule) ==
    SumSeq([i \in DOMAIN nep_requirements |->
              CreditsIn(schedule, nep_requirements[i].category)])

\* the share of a category lies within the range of its requirement; the
\* share is 0 when nothing is counted
ShareWithin(schedule, requirement) ==
    LET credits == CreditsIn(schedule, requirement.category)
        total == TotalCredits(schedule)
    IN  IF total = 0 THEN requirement.min_percentage <= 0
        ELSE /\ credits * 100 >= requirement.min_percentage * total
             /\ credits * 100 <= requirement.max_percentage * total

\* C18: for a FYUP or ITEP schedule a category is compliant exactly when its
\* share of the credits lies within the range of the category and its credits
\* reach the minimum; when the credits are below the minimum the report is
\* not compliant overall, has a "credits are insufficient" violation for the
\* category and a recommendation that names the missing credits.
C18_CategoryRule ==
    (cpc = "reported" /\ FyupAudited) =>
        \A i \in DOMAIN nep_requirements :
            LET requirement == nep_requirements[i]
                credits == CreditsIn(audited, requirement.category)
            IN  /\ compliance_report.category_compliance[requirement.category].compliant
                     <=> (ShareWithin(audited, requirement)
                          /\ credits >= requirement.min_credits)
                /\ credits < requirement.min_credits =>
                     /\ ~compliance_report.overall_compliant
                     /\ \E j \in DOMAIN compliance_report.violations :
                          compliance_report.violations[j] =
                              [kind |-> "credits are insufficient",
                               category |-> Title(requirement.category),
                               credits |-> credits,
                               limit |-> requirement.min_credits]
                     /\ \E j \in DOMAIN compliance_report.recommendations :
                          compliance_report.recommendations[j] =
                              [kind |-> "Add more credits",
                               category |-> requirement.category,
                               credits |-> requirement.min_credits - credits]

\* a report on a schedule with 8 skill credits, a share within 10..20 %, and
\* another category that is compliant
C18_Witness ==
    /\ cpc = "reported"
    /\ FyupAudited
    /\ CreditsIn(audited, "skill") = 8
    /\ ShareWithin(audited, nep_requirements[3])
    /\ ~compliance_report.category_compliance["skill"].compliant
    /\ \E i \in DOMAIN nep_requirements :
          compliance_report.category_compliance[nep_requirements[i].category].compliant

\* the categories of the report and the compliant ones
ReportedCategories == DOMAIN compliance_report.category_compliance

CompliantCategories ==
    {category \in ReportedCategories :
        compliance_report.category_compliance[category].compliant}

\* total_categories times the unclamped score, in hundredths
RawScoreTimesTotal ==
    Cardinality(CompliantCategories) * 100 * ScoreScale
    + compliance_report.multidisciplinary_score * 10 * Cardinality(ReportedCategories)
    - 5 * ScoreScale * Len(compliance_report.violations) * Cardinality(ReportedCategories)

\* C19: the overall score is compliant/total * 100 + 0.1 * multidisciplinary
\* score - 5 * number of violations, clamped to 0..100; it always lies in
\* 0..100.
C19_ScoreClamped ==
    cpc = "reported" =>
        /\ compliance_report.compliance_score >= 0
        /\ compliance_report.compliance_score <= 100 * ScoreScale
        /\ ReportedCategories # {} =>
             compliance_report.compliance_score * Cardinality(ReportedCategories) =
                 Min(100 * ScoreScale * Cardinality(ReportedCategories),
                     Max(0, RawScoreTimesTotal))

\* a report whose unclamped score is above 100
C19_Witness ==
    /\ cpc = "reported"
    /\ ReportedCategories # {}
    /\ RawScoreTimesTotal > 100 * ScoreScale * Cardinality(ReportedCategories)
    /\ compliance_report.compliance_score = 100 * ScoreScale

\* a report whose unclamped score is below 0
C19_WitnessBelow ==
    /\ cpc = "reported"
    /\ ReportedCategories # {}
    /\ RawScoreTimesTotal < 0
    /\ compliance_report.compliance_score = 0

C40_CompliantOnlyWithoutViolations ==
    cpc = "reported"
        => (compliance_report.overall_compliant
               => compliance_report.violations = << >>)

====
